---- MODULE Spec2Model ----
(***************************************************************************)
(* Emissions dashboard: the relational store (schema.sql), the CSV import  *)
(* (scripts/etl.cjs), the Worker API (emissions-api/src/index.js) and the  *)
(* mock client (src/api/mockApi.js), and the two views of the frontend     *)
(* (App, InvestorView, CorporateView) with their data wrapper (data.js).   *)
(*                                                                         *)
(* Texts (names, sectors, regions, request parameters) are sequences of    *)
(* one-character strings, so that LIKE patterns, percent escapes, quoting *)
(* and number parsing are computed character by character.  A blank CSV    *)
(* cell is the empty text.  Numbers are integers; NULL and NaN are two     *)
(* reserved values outside the data range (all data values are >= 0).      *)
(***************************************************************************)
EXTENDS Integers, Sequences, FiniteSets, TLC

VARIABLES csv, companies, emissions, etl, req, resp, view

vars == <<csv, companies, emissions, etl, req, resp, view>>

\* ------------------------------------------------------------ bounds

\* Most data rows of the CSV file of the small specification.
MaxRows == 3

\* Most companies of the CSV file of the search specification.
MaxBulk == 52

\* The most data lines of a CSV file of the import and reload specifications.
MaxImportRows == 3

\* The most user events (year clicks, company selections, view switches,
\* retries) of the views specification.
MaxEvents == 3

\* ------------------------------------------------------------ values

\* SQL NULL / JavaScript null in a numeric field.
NULL == -1000

\* JavaScript NaN (parseInt / parseFloat of a blank text).
NaN == -1001

\* The blank text: an empty CSV cell, and null in a text field.
Blank == <<>>

IsNum(v) == v # NULL /\ v # NaN

\* JavaScript + on numbers.
JsAdd(a, b) == IF a = NaN \/ b = NaN THEN NaN ELSE a + b

\* SQL + : NULL if either operand is NULL.
SqlAdd(a, b) == IF a = NULL \/ b = NULL THEN NULL ELSE a + b

\* Mutant of Coalesce: the value used as it is.
CoalesceMissing(v, d) == v

\* SQL COALESCE(v, d).
Coalesce(v, d) == IF v = NULL THEN d ELSE v

\* ------------------------------------------------------------ characters

\* ASCII codes of the characters the model uses.
CharCode(ch) ==
    CASE ch = "%" -> 37
      [] ch = "'" -> 39
      [] ch = " " -> 32
      [] ch = "0" -> 48
      [] ch = "1" -> 49
      [] ch = "2" -> 50
      [] ch = "3" -> 51
      [] ch = "4" -> 52
      [] ch = "5" -> 53
      [] ch = "6" -> 54
      [] ch = "7" -> 55
      [] ch = "8" -> 56
      [] ch = "9" -> 57
      [] ch = "A" -> 65
      [] ch = "B" -> 66
      [] ch = "C" -> 67
      [] ch = "Z" -> 90
      [] ch = "_" -> 95
      [] ch = "a" -> 97
      [] ch = "b" -> 98
      [] ch = "c" -> 99
      [] ch = "e" -> 101
      [] ch = "i" -> 105
      [] ch = "l" -> 108
      [] ch = "m" -> 109
      [] ch = "o" -> 111
      [] ch = "p" -> 112
      [] ch = "r" -> 114
      [] ch = "t" -> 116
      [] ch = "z" -> 122

\* memcmp order of two texts (SQLite's BINARY collation, ORDER BY c.name).
RECURSIVE TextLess(_, _)
TextLess(s, t) ==
    IF t = <<>> THEN FALSE
    ELSE IF s = <<>> THEN TRUE
    ELSE IF CharCode(Head(s)) # CharCode(Head(t))
         THEN CharCode(Head(s)) < CharCode(Head(t))
    ELSE TextLess(Tail(s), Tail(t))

IsDigit(ch) == ch \in {"0", "1", "2", "3", "4", "5", "6", "7", "8", "9"}

\* The number a run of leading decimal digits denotes, NaN when there is none:
\* parseInt / parseFloat of a text of digits (the data holds no sign, point
\* or exponent), and the value SQLite reads from a numeric literal.
RECURSIVE DigitsValue(_, _)
DigitsValue(s, acc) ==
    IF s = <<>> \/ ~IsDigit(Head(s)) THEN acc
    ELSE DigitsValue(Tail(s), 10 * acc + (CharCode(Head(s)) - 48))

RECURSIVE TrimLeft(_)
TrimLeft(s) == IF s # <<>> /\ Head(s) = " " THEN TrimLeft(Tail(s)) ELSE s

RECURSIVE TrimRight(_)
TrimRight(s) ==
    IF s # <<>> /\ s[Len(s)] = " " THEN TrimRight(SubSeq(s, 1, Len(s) - 1)) ELSE s

\* String.prototype.trim.
Trim(s) == TrimRight(TrimLeft(s))

parseFloat(s) ==
    LET t == TrimLeft(s)
    IN  IF t # <<>> /\ Head(t) = "-" /\ Len(t) >= 2 /\ IsDigit(t[2])
        THEN 0 - DigitsValue(Tail(t), 0)
        ELSE IF t = <<>> \/ ~IsDigit(Head(t)) THEN NaN ELSE DigitsValue(t, 0)

parseInt(s) == parseFloat(s)

\* ------------------------------------------------------------ the CSV file

\* Texts of the data.
N_Ab == <<"A", "b">>
N_ab == <<"a", "b">>
N_B == <<"B">>
SecE == <<"E">>
SecT == <<"T">>
RegEU == <<"E", "U">>
RegUS == <<"U", "S">>
Y2020 == <<"2", "0", "2", "0">>
Y2022 == <<"2", "0", "2", "2">>

\* One data line of the CSV file after split(','), keyed by header.
Row(co, se, re, yr, s1, s2, s3, by) ==
    [Company |-> co, Sector |-> se, Region |-> re, Ownership |-> Blank,
     BaselineYear |-> by, NetZeroYear |-> Blank, InterimTargetYear |-> Blank,
     InterimReduction |-> Blank, Year |-> yr, Scope1 |-> s1, Scope2 |-> s2,
     Scope3 |-> s3]

\* The data lines a CSV file is made of: a company with two years (100/50/200
\* and 80/40/150, the second with another sector), a company differing only in
\* case with blank Scope 1 and Scope 2, a peer with all scopes 0, a line
\* without Company, a line without Sector, Region and Year.
CsvRowPool ==
    { Row(N_Ab, SecE, RegEU, Y2020, <<"1","0","0">>, <<"5","0">>, <<"2","0","0">>, Y2020),
      Row(N_Ab, SecT, RegEU, Y2022, <<"8","0">>, <<"4","0">>, <<"1","5","0">>, Y2020),
      Row(N_ab, SecE, RegUS, Y2020, Blank, Blank, <<"5">>, Blank),
      Row(N_B, SecE, RegUS, Y2020, <<"0">>, <<"0">>, <<"0">>, Y2022),
      Row(<<" ">>, SecE, RegEU, Y2020, <<"1">>, <<"1">>, <<"1">>, Y2020),
      Row(N_B, Blank, Blank, Blank, <<"7">>, Blank, <<"7">>, Blank) }

RECURSIVE SeqsUpTo(_, _)
SeqsUpTo(S, n) ==
    IF n = 0 THEN {<<>>}
    ELSE LET shorter == SeqsUpTo(S, n - 1)
         IN  shorter \cup {Append(q, x) : q \in shorter, x \in S}

CsvFiles == SeqsUpTo(CsvRowPool, MaxRows)

\* The CSV file of the search specification: MaxBulk companies with distinct
\* two-character names, not in name order, over two sectors and three regions
\* (one of them blank), and no Year.
BulkAlphabet == <<"A", "a", "B", "b", "%", "_", "C", "c">>

BulkName(i) ==
    LET j == (7 * i) % 64
    IN  <<BulkAlphabet[(j \div 8) + 1], BulkAlphabet[(j % 8) + 1]>>

BulkCsv ==
    [i \in 1..MaxBulk |->
        Row(BulkName(i),
            IF i % 2 = 0 THEN SecE ELSE SecT,
            CASE i % 3 = 0 -> RegEU [] i % 3 = 1 -> RegUS [] OTHER -> Blank,
            Blank, Blank, Blank, Blank, Blank)]

\* ------------------------------------------------------------ etl.cjs

Undefined == <<"u", "n", "d", "e", "f", "i", "n", "e", "d">>

\* The data lines of the import specification: a line with every field given
\* and padded with spaces, a second line of the same company and year, a line
\* of a company with every other field blank, a line with blank scopes, a
\* line without Company, a line whose Company is blank space, a line whose
\* Sector is the text undefined, and a line whose name holds an apostrophe.
N_O == <<"O", "'">>

FullRow ==
    [Company |-> <<" ", "A", "b">>, Sector |-> <<"E", " ">>, Region |-> <<" ", "E", "U">>,
     Ownership |-> <<"P">>, BaselineYear |-> <<"2", "0", "1", "9">>,
     NetZeroYear |-> <<"2", "0", "4", "0">>, InterimTargetYear |-> <<"2", "0", "3", "0">>,
     InterimReduction |-> <<"5", "0">>, Year |-> <<"2", "0", "2", "0", " ">>,
     Scope1 |-> <<"1", "0">>, Scope2 |-> <<" ", "0">>, Scope3 |-> <<"3", "0">>]

ImportRowPool ==
    { FullRow,
      Row(N_Ab, SecT, RegUS, Y2020, <<"1">>, <<"2">>, <<"3">>, Y2022),
      Row(N_B, Blank, Blank, Blank, Blank, Blank, Blank, Blank),
      Row(N_B, SecE, Blank, Y2022, Blank, Blank, Blank, Blank),
      Row(Blank, SecE, RegEU, Y2020, <<"1">>, <<"1">>, <<"1">>, Y2020),
      Row(<<" ">>, SecT, RegUS, Y2022, <<"4">>, Blank, <<"4">>, Blank),
      Row(N_ab, Undefined, RegEU, Y2020, <<"6">>, Undefined, <<"6">>, Blank),
      Row(N_O, SecE, RegEU, Y2020, <<"9">>, <<"9">>, <<"9">>, Blank) }

ImportCsvFiles == SeqsUpTo(ImportRowPool, MaxImportRows)

\* The data lines of the reload specification: two lines of the same company
\* and year with different scopes, and a line of another company.
ReloadRowPool ==
    { Row(N_Ab, SecE, RegEU, Y2020, <<"1">>, <<"2">>, <<"3">>, Y2020),
      Row(N_Ab, SecE, RegEU, Y2020, <<"4">>, Blank, <<"4">>, Y2020),
      Row(N_B, SecE, RegUS, Y2022, <<"0">>, <<"0">>, <<"0">>, Blank) }

ReloadCsvFiles == SeqsUpTo(ReloadRowPool, MaxImportRows)

\* Mutant of cleanValue: a blank value is left blank instead of defaulted.
cleanValueNoDefault(value, defaultValue) ==
    IF value = Blank \/ Trim(value) = Blank \/ value = Undefined THEN Blank ELSE Trim(value)

cleanValue(value, defaultValue) ==
    IF value = Blank \/ Trim(value) = Blank \/ value = Undefined
    THEN defaultValue
    ELSE Trim(value)

RECURSIVE sqlEscape(_)
sqlEscape(str) ==
    IF str = <<>> THEN <<>>
    ELSE IF Head(str) = "'" THEN <<"'", "'">> \o sqlEscape(Tail(str))
    ELSE <<Head(str)>> \o sqlEscape(Tail(str))

\* The text SQLite reads from the body of a '...' literal: '' is one quote.
RECURSIVE SqlStringValue(_)
SqlStringValue(body) ==
    IF body = <<>> THEN <<>>
    ELSE IF Head(body) = "'" /\ Len(body) >= 2 /\ body[2] = "'"
         THEN <<"'">> \o SqlStringValue(Tail(Tail(body)))
    ELSE <<Head(body)>> \o SqlStringValue(Tail(body))

\* The value SQLite reads from an interpolated numeric text, or from NULL.
SqlNumber(text) == IF text = Blank THEN NULL ELSE DigitsValue(text, 0)

\* Mutant of ParseRows: rows without a company name are kept too.
ParseRowsKeepAll(lines) == [i \in 1..Len(lines) |-> [h \in DOMAIN lines[i] |-> cleanValue(lines[i][h], Blank)]]

\* Step 1: every cell cleaned; only rows with a company name are kept.
ParseRow(r) == [h \in DOMAIN r |-> cleanValue(r[h], Blank)]

RECURSIVE ParseRows(_)
ParseRows(lines) ==
    IF lines = <<>> THEN <<>>
    ELSE LET row == ParseRow(Head(lines))
         IN  IF row.Company # Blank THEN <<row>> \o ParseRows(Tail(lines))
             ELSE ParseRows(Tail(lines))

\* Mutant of ExtractCompanies: companies.set without the has() test, so that
\* the last row of a name wins, at the place of the first.
RECURSIVE ExtractCompaniesLastWins(_, _)
ExtractCompaniesLastWins(rows, map) ==
    IF rows = <<>> THEN map
    ELSE LET row == Head(rows)
             company ==
                 [name |-> row.Company,
                  sector |-> cleanValue(row.Sector, <<"O","t","h","e","r">>),
                  region |-> cleanValue(row.Region, <<"U","n","k","n","o","w","n">>),
                  ownership |-> cleanValue(row.Ownership, <<"P","u","b","l","i","c">>),
                  baseline_year |-> cleanValue(row.BaselineYear, Y2020),
                  net_zero_year |-> cleanValue(row.NetZeroYear, <<"2","0","5","0">>),
                  interim_target_year |-> cleanValue(row.InterimTargetYear, Blank),
                  interim_reduction_percent |-> cleanValue(row.InterimReduction, Blank)]
         IN  IF \E i \in 1..Len(map) : map[i].name = row.Company
             THEN ExtractCompaniesLastWins(Tail(rows),
                    [i \in 1..Len(map) |->
                        IF map[i].name = row.Company THEN company ELSE map[i]])
             ELSE ExtractCompaniesLastWins(Tail(rows), Append(map, company))

\* Step 2: the companies Map, in insertion order; the first row of a name wins.
RECURSIVE ExtractCompanies(_, _)
ExtractCompanies(rows, map) ==
    IF rows = <<>> THEN map
    ELSE LET row == Head(rows)
         IN  IF \E i \in 1..Len(map) : map[i].name = row.Company
             THEN ExtractCompanies(Tail(rows), map)
             ELSE ExtractCompanies(Tail(rows), Append(map,
                    [name |-> row.Company,
                     sector |-> cleanValue(row.Sector, <<"O","t","h","e","r">>),
                     region |-> cleanValue(row.Region, <<"U","n","k","n","o","w","n">>),
                     ownership |-> cleanValue(row.Ownership, <<"P","u","b","l","i","c">>),
                     baseline_year |-> cleanValue(row.BaselineYear, Y2020),
                     net_zero_year |-> cleanValue(row.NetZeroYear, <<"2","0","5","0">>),
                     interim_target_year |-> cleanValue(row.InterimTargetYear, Blank),
                     interim_reduction_percent |-> cleanValue(row.InterimReduction, Blank)]))

\* Step 3: INSERT OR IGNORE INTO companies ..., as SQLite reads the statement.
CompanyInsert(company) ==
    [kind |-> "company",
     name |-> SqlStringValue(sqlEscape(company.name)),
     sector |-> SqlStringValue(sqlEscape(company.sector)),
     region |-> SqlStringValue(sqlEscape(company.region)),
     ownership |-> SqlStringValue(sqlEscape(company.ownership)),
     baseline_year |-> SqlNumber(company.baseline_year),
     net_zero_year |-> SqlNumber(company.net_zero_year),
     interim_target_year |-> SqlNumber(company.interim_target_year),
     interim_reduction_percent |-> SqlNumber(company.interim_reduction_percent)]

\* Mutant of EmissionInsert: a blank Scope 2 defaults to 0 like Scope 1 and 3.
EmissionInsertScope2Zero(row) ==
    [kind |-> "emission",
     name |-> SqlStringValue(sqlEscape(row.Company)),
     year |-> SqlNumber(cleanValue(row.Year, Blank)),
     scope_1 |-> SqlNumber(cleanValue(row.Scope1, <<"0">>)),
     scope_2 |-> SqlNumber(cleanValue(row.Scope2, <<"0">>)),
     scope_3 |-> SqlNumber(cleanValue(row.Scope3, <<"0">>))]

\* Step 3: INSERT INTO emissions ... SELECT id, ... FROM companies WHERE name = '...'.
EmissionInsert(row) ==
    [kind |-> "emission",
     name |-> SqlStringValue(sqlEscape(row.Company)),
     year |-> SqlNumber(cleanValue(row.Year, Blank)),
     scope_1 |-> SqlNumber(cleanValue(row.Scope1, <<"0">>)),
     scope_2 |-> SqlNumber(cleanValue(row.Scope2, Blank)),
     scope_3 |-> SqlNumber(cleanValue(row.Scope3, <<"0">>))]

RECURSIVE EmissionInserts(_)
EmissionInserts(rows) ==
    IF rows = <<>> THEN <<>>
    ELSE IF cleanValue(Head(rows).Year, Blank) # Blank
         THEN <<EmissionInsert(Head(rows))>> \o EmissionInserts(Tail(rows))
    ELSE EmissionInserts(Tail(rows))

\* The statements of temp-import.sql for a CSV file.
GenerateSql(lines) ==
    LET rows == ParseRows(lines)
        map == ExtractCompanies(rows, <<>>)
    IN  [i \in 1..Len(map) |-> CompanyInsert(map[i])] \o EmissionInserts(rows)

\* ------------------------------------------------------------ schema.sql

CompanyIds(cs, name) == {cs[i].id : i \in {j \in 1..Len(cs) : cs[j].name = name}}

\* Mutant of EmissionsUnique: the emissions table without its UNIQUE constraint.
NoUniqueConstraint(es, cid, year) == TRUE

\* UNIQUE(company_id, year).
EmissionsUnique(es, cid, year) ==
    ~\E i \in 1..Len(es) : es[i].company_id = cid /\ es[i].year = year

\* Mutant of ExecStatement: companies.name is not UNIQUE, so that INSERT OR
\* IGNORE INTO companies always inserts.
ExecStatementNoNameUnique(db, st) ==
    IF st.kind = "company"
    THEN [db EXCEPT !.companies = Append(@,
            [id |-> Len(db.companies) + 1, name |-> st.name,
             sector |-> st.sector, region |-> st.region,
             ownership |-> st.ownership,
             baseline_year |-> st.baseline_year,
             net_zero_year |-> st.net_zero_year,
             interim_target_year |-> st.interim_target_year,
             interim_reduction_percent |-> st.interim_reduction_percent])]
    ELSE LET ids == CompanyIds(db.companies, st.name)
         IN  IF ids = {} THEN db
             ELSE LET cid == CHOOSE c \in ids : \A d \in ids : c <= d
                  IN  IF EmissionsUnique(db.emissions, cid, st.year)
                      THEN [db EXCEPT !.emissions = Append(@,
                              [company_id |-> cid, year |-> st.year,
                               scope_1 |-> st.scope_1, scope_2 |-> st.scope_2,
                               scope_3 |-> st.scope_3])]
                      ELSE [db EXCEPT !.ok = FALSE]

\* One statement run against the store: the new tables, or an error.
ExecStatement(db, st) ==
    IF st.kind = "company"
    THEN IF CompanyIds(db.companies, st.name) # {}
         THEN db
         ELSE [db EXCEPT !.companies = Append(@,
                 [id |-> Len(db.companies) + 1, name |-> st.name,
                  sector |-> st.sector, region |-> st.region,
                  ownership |-> st.ownership,
                  baseline_year |-> st.baseline_year,
                  net_zero_year |-> st.net_zero_year,
                  interim_target_year |-> st.interim_target_year,
                  interim_reduction_percent |-> st.interim_reduction_percent])]
    ELSE LET ids == CompanyIds(db.companies, st.name)
         IN  IF ids = {} THEN db
             ELSE LET cid == CHOOSE c \in ids : TRUE
                  IN  IF EmissionsUnique(db.emissions, cid, st.year)
                      THEN [db EXCEPT !.emissions = Append(@,
                              [company_id |-> cid, year |-> st.year,
                               scope_1 |-> st.scope_1, scope_2 |-> st.scope_2,
                               scope_3 |-> st.scope_3])]
                      ELSE [db EXCEPT !.ok = FALSE]

\* The first k statements of a file run in order, stopping at the first error.
RECURSIVE ExecPrefix(_, _, _)
ExecPrefix(db, sql, k) ==
    IF k = 0 \/ sql = <<>> \/ ~db.ok THEN db
    ELSE ExecPrefix(ExecStatement(db, Head(sql)), Tail(sql), k - 1)

\* ------------------------------------------------------------ index.js helpers

KnownChars ==
    {"%", "'", " ", "0", "1", "2", "3", "4", "5", "6", "7", "8", "9",
     "A", "B", "C", "Z", "_", "a", "b", "c", "e", "i", "l", "m", "o", "p", "r",
     "t", "z"}

IsHex(ch) == IsDigit(ch) \/ ch \in {"A", "B", "C", "D", "E", "F"}

HexValue(ch) ==
    IF IsDigit(ch) THEN CharCode(ch) - 48
    ELSE CASE ch = "A" -> 10 [] ch = "B" -> 11 [] ch = "C" -> 12
           [] ch = "D" -> 13 [] ch = "E" -> 14 [] ch = "F" -> 15

\* The character of an ASCII code ("?" for a code outside the model's characters).
CharOfCode(n) ==
    IF \E ch \in KnownChars : CharCode(ch) = n
    THEN CHOOSE ch \in KnownChars : CharCode(ch) = n
    ELSE "?"

\* decodeURIComponent: %XX is the character of code XX; a % that two hex
\* digits do not follow throws URIError (ok = FALSE).
RECURSIVE decodeURIComponent(_)
decodeURIComponent(s) ==
    IF s = <<>> THEN [ok |-> TRUE, value |-> <<>>]
    ELSE IF Head(s) = "%"
         THEN IF Len(s) >= 3 /\ IsHex(s[2]) /\ IsHex(s[3])
              THEN LET rest == decodeURIComponent(SubSeq(s, 4, Len(s)))
                   IN  [ok |-> rest.ok,
                        value |-> <<CharOfCode(16 * HexValue(s[2]) + HexValue(s[3]))>>
                                  \o rest.value]
              ELSE [ok |-> FALSE, value |-> <<>>]
    ELSE LET rest == decodeURIComponent(Tail(s))
         IN  [ok |-> rest.ok, value |-> <<Head(s)>> \o rest.value]

\* Mutant of SqlTotal: scope_1 + scope_2 + scope_3 without COALESCE.
SqlTotalNoCoalesce(e) == SqlAdd(SqlAdd(e.scope_1, e.scope_2), e.scope_3)

\* (scope_1 + COALESCE(scope_2, 0) + scope_3) of an emissions row.
SqlTotal(e) == SqlAdd(SqlAdd(e.scope_1, Coalesce(e.scope_2, 0)), e.scope_3)

\* JavaScript x || null, for x a number or undefined (NULL here).
OrNull(x) == IF x = NULL \/ x = NaN \/ x = 0 THEN NULL ELSE x

\* Mutant of CompaniesNamed: the name compared without regard to case.
CompaniesNamedNoCase(cs, name) ==
    LET Fold(t) == [i \in 1..Len(t) |->
                      IF CharCode(t[i]) >= 65 /\ CharCode(t[i]) <= 90
                      THEN CharCode(t[i]) + 32 ELSE CharCode(t[i])]
    IN  SelectSeq(cs, LAMBDA c : Fold(c.name) = Fold(name))

\* SELECT * FROM companies WHERE name = ? ... .first() : the rows, in id order.
CompaniesNamed(cs, name) == SelectSeq(cs, LAMBDA c : c.name = name)

\* ORDER BY year: ascending, rows of equal year in table order.
RECURSIVE SortByYear(_)
SortByYear(s) ==
    IF s = <<>> THEN <<>>
    ELSE LET m == CHOOSE i \in 1..Len(s) :
                    /\ \A j \in 1..Len(s) : s[i].year <= s[j].year
                    /\ \A j \in 1..(i - 1) : s[j].year # s[i].year
         IN  <<s[m]>> \o SortByYear(SubSeq(s, 1, m - 1) \o SubSeq(s, m + 1, Len(s)))

\* SELECT year, scope_1, scope_2, scope_3, (...) as total FROM emissions
\* WHERE company_id = ? ORDER BY year.
EmissionsOf(es, cid) ==
    LET mine == SelectSeq(es, LAMBDA e : e.company_id = cid)
        rows == [i \in 1..Len(mine) |->
                    [year |-> mine[i].year, scope_1 |-> mine[i].scope_1,
                     scope_2 |-> mine[i].scope_2, scope_3 |-> mine[i].scope_3,
                     total |-> SqlTotal(mine[i])]]
    IN  SortByYear(rows)

\* emissions.find(e => e.year == company.baseline_year)?.total || null
BaselineEmissions(rows, baseline_year) ==
    LET hits == SelectSeq(rows, LAMBDA r : r.year = baseline_year)
    IN  OrNull(IF hits = <<>> THEN NULL ELSE hits[1].total)

\* emissions[emissions.length - 1]?.total || null
LatestEmissions(rows) == OrNull(IF rows = <<>> THEN NULL ELSE rows[Len(rows)].total)

Summary(rows, company) ==
    [total_records |-> Len(rows),
     baseline_emissions |-> BaselineEmissions(rows, company.baseline_year),
     latest_emissions |-> LatestEmissions(rows)]

NotFound(n) ==
    [status |-> 404, success |-> FALSE, error |-> "Company not found", queries |-> n]

\* Mutant of Internal: the failure is swallowed and an empty success returned.
InternalSwallowed(message, n) == [status |-> 200, success |-> TRUE, queries |-> n]

\* The catch block of a handler: HTTP 500 with the failure's message.
Internal(message, n) ==
    [status |-> 500, success |-> FALSE, error |-> message, queries |-> n]

\* Mutant of CompanyDetail: the summary is read by two more store queries.
CompanyDetailSummaryQueried(cs, es, param, failAt) ==
    LET name == decodeURIComponent(param)
        found == CompaniesNamed(cs, name.value)
    IN  IF ~name.ok THEN Internal("URI malformed", 0)
        ELSE IF failAt = 1 THEN Internal("D1_ERROR", 1)
        ELSE IF found = <<>> THEN NotFound(1)
        ELSE IF failAt = 2 THEN Internal("D1_ERROR", 2)
        ELSE LET rows == EmissionsOf(es, found[1].id)
             IN  [status |-> 200, success |-> TRUE, company |-> found[1],
                  emissions |-> rows, summary |-> Summary(rows, found[1]),
                  queries |-> 4]

\* GET /api/companies/:name.  failAt = n > 0: the n-th store query fails.
CompanyDetail(cs, es, param, failAt) ==
    LET name == decodeURIComponent(param)
        found == CompaniesNamed(cs, name.value)
    IN  IF ~name.ok THEN Internal("URI malformed", 0)
        ELSE IF failAt = 1 THEN Internal("D1_ERROR", 1)
        ELSE IF found = <<>> THEN NotFound(1)
        ELSE IF failAt = 2 THEN Internal("D1_ERROR", 2)
        ELSE LET rows == EmissionsOf(es, found[1].id)
             IN  [status |-> 200, success |-> TRUE, company |-> found[1],
                  emissions |-> rows, summary |-> Summary(rows, found[1]),
                  queries |-> 2]

\* The permutations of 1..n, each a sequence of indices.
Orderings(n) == {p \in [1..n -> 1..n] : \A i, j \in 1..n : i # j => p[i] # p[j]}

Reorder(s, p) == [i \in 1..Len(p) |-> s[p[i]]]

Min(a, b) == IF a <= b THEN a ELSE b

RECURSIVE SumSeq(_)
SumSeq(s) == IF s = <<>> THEN 0 ELSE Head(s) + SumSeq(Tail(s))

\* SQL SUM: NULL values are skipped; NULL when nothing is left.
SqlSum(values) ==
    LET kept == SelectSeq(values, LAMBDA v : v # NULL)
    IN  IF kept = <<>> THEN NULL ELSE SumSeq(kept)

\* Mutant of SqlAvg: the sum is not divided by the number of rows.
SqlAvgUndivided(values) ==
    LET kept == SelectSeq(values, LAMBDA v : v # NULL)
    IN  IF kept = <<>> THEN NULL ELSE [num |-> SumSeq(kept), den |-> 1]

\* SQL AVG, as the fraction num / den (REAL division is not computed).
SqlAvg(values) ==
    LET kept == SelectSeq(values, LAMBDA v : v # NULL)
    IN  IF kept = <<>> THEN NULL ELSE [num |-> SumSeq(kept), den |-> Len(kept)]

\* FROM companies c JOIN emissions e ON c.id = e.company_id: one row per
\* emissions row whose company exists, in emissions order.
Joined(cs, es) ==
    LET ok == SelectSeq(es, LAMBDA e : \E i \in 1..Len(cs) : cs[i].id = e.company_id)
    IN  [i \in 1..Len(ok) |->
            [c |-> cs[CHOOSE k \in 1..Len(cs) : cs[k].id = ok[i].company_id],
             e |-> ok[i]]]

\* The value of '${name}' in the SQL text: '' reads as one quote, and a quote
\* on its own ends the literal inside the name, which is a syntax error for
\* every name of the data.
RECURSIVE InterpolatedName(_)
InterpolatedName(name) ==
    IF name = <<>> THEN [ok |-> TRUE, value |-> <<>>]
    ELSE IF Head(name) = "'"
         THEN IF Len(name) >= 2 /\ name[2] = "'"
              THEN LET rest == InterpolatedName(Tail(Tail(name)))
                   IN  [ok |-> rest.ok, value |-> <<"'">> \o rest.value]
              ELSE [ok |-> FALSE, value |-> <<>>]
    ELSE LET rest == InterpolatedName(Tail(name))
         IN  [ok |-> rest.ok, value |-> <<Head(name)>> \o rest.value]

\* The currentCompanyEmissions query: the rows WHERE c.name = ? AND e.year = ?.
CurrentCompanyEmissions(cs, es, name, year) ==
    LET hits == SelectSeq(Joined(cs, es),
                          LAMBDA r : r.c.name = name /\ r.e.year = year)
    IN  [i \in 1..Len(hits) |->
            [name |-> InterpolatedName(name).value, sector |-> hits[i].c.sector,
             total_emissions |-> SqlTotal(hits[i].e), year |-> hits[i].e.year,
             is_current_company |-> 1]]

\* The peers query before ORDER BY RANDOM() LIMIT ?.
PeerRows(cs, es, sector, name, year) ==
    LET hits == SelectSeq(Joined(cs, es),
                          LAMBDA r : r.c.sector = sector /\ r.c.name # name
                                     /\ r.e.year = year)
    IN  [i \in 1..Len(hits) |->
            [name |-> hits[i].c.name, sector |-> hits[i].c.sector,
             region |-> hits[i].c.region,
             total_emissions |-> SqlTotal(hits[i].e), year |-> hits[i].e.year,
             is_current_company |-> 0]]

\* LIMIT k of n rows: a negative k is no limit (SQLite).
SqlLimit(n, k) == IF k < 0 THEN n ELSE Min(n, k)

\* ORDER BY RANDOM() LIMIT k: every arrangement of SqlLimit rows.
RandomSample(rows, k) ==
    {SubSeq(Reorder(rows, p), 1, SqlLimit(Len(rows), k)) : p \in Orderings(Len(rows))}

\* c.req.query(key) || fallback
QueryOr(text, fallback) == IF text = Blank THEN fallback ELSE text

CurrentYearText == <<"2", "0", "2", "6">>

\* GET /api/companies/:name/peers: the responses the handler can give.
PeerComparison(cs, es, r) ==
    LET name == decodeURIComponent(r.param)
        limit == parseInt(QueryOr(r.limit, <<"5">>))
        year == parseInt(QueryOr(r.year, CurrentYearText))
        found == CompaniesNamed(cs, name.value)
    IN  IF ~name.ok THEN {Internal("URI malformed", 0)}
        ELSE IF r.failAt = 1 THEN {Internal("D1_ERROR", 1)}
        ELSE IF found = <<>> THEN {NotFound(1)}
        ELSE IF r.failAt = 2 THEN {Internal("D1_ERROR", 2)}
        ELSE IF ~InterpolatedName(name.value).ok THEN {Internal("D1_ERROR", 2)}
        ELSE IF r.failAt = 3 THEN {Internal("D1_ERROR", 3)}
        ELSE LET current == CurrentCompanyEmissions(cs, es, name.value, year)
                 all == PeerRows(cs, es, found[1].sector, name.value, year)
             IN  {[status |-> 200, success |-> TRUE, year |-> year,
                   sector |-> found[1].sector,
                   companies |-> (IF current # <<>> THEN <<current[1]>> ELSE <<>>)
                                 \o peers,
                   queries |-> 3] : peers \in RandomSample(all, limit)}

\* The groups of GET /api/sectors (key = "sector") and GET /api/regions
\* (key = "region") for a year, before ORDER BY.
RollupGroups(cs, es, year, key) ==
    LET rows == SelectSeq(Joined(cs, es), LAMBDA r : r.e.year = year)
        keys == {rows[i].c[key] : i \in 1..Len(rows)}
        Of(k) == SelectSeq(rows, LAMBDA r : r.c[key] = k)
        Col(k, f) == [i \in 1..Len(Of(k)) |-> Of(k)[i].e[f]]
        Totals(k) == [i \in 1..Len(Of(k)) |-> SqlTotal(Of(k)[i].e)]
    IN  {[key |-> k,
          company_count |-> Cardinality({Of(k)[i].c.id : i \in 1..Len(Of(k))}),
          total_scope_1 |-> SqlSum(Col(k, "scope_1")),
          total_scope_2 |-> SqlSum([i \in 1..Len(Of(k)) |->
                                      Coalesce(Of(k)[i].e.scope_2, 0)]),
          total_scope_3 |-> SqlSum(Col(k, "scope_3")),
          total_emissions |-> SqlSum(Totals(k)),
          avg_emissions |-> SqlAvg(Totals(k))] : k \in keys}

\* The sequences of all the groups of G with total_emissions descending
\* (ORDER BY total_emissions DESC; groups of equal total come in any order).
DescendingOrders(G) ==
    {g \in [1..Cardinality(G) -> G] :
        /\ \A i, j \in DOMAIN g : i # j => g[i] # g[j]
        /\ \A i \in DOMAIN g : i > 1 =>
               g[i - 1].total_emissions >= g[i].total_emissions}

\* GET /api/sectors and GET /api/regions: the responses the handler can give.
Rollup(cs, es, r, key) ==
    LET year == parseInt(QueryOr(r.year, CurrentYearText))
    IN  IF r.failAt = 1 THEN {Internal("D1_ERROR", 1)}
        ELSE {[status |-> 200, success |-> TRUE, year |-> year, groups |-> g,
               queries |-> 1] : g \in DescendingOrders(RollupGroups(cs, es, year, key))}

\* c.req.query(key) of a key the request does not carry.
JsUndefined == <<"undefined">>

\* JavaScript truthiness of a query value (a text or undefined).
Supplied(v) == v # JsUndefined /\ v # Blank

\* SQLite folds the 26 ASCII upper-case letters when LIKE compares characters.
LikeFold(ch) ==
    IF CharCode(ch) >= 65 /\ CharCode(ch) <= 90 THEN CharCode(ch) + 32
    ELSE CharCode(ch)

\* text LIKE pattern, no ESCAPE: % is any run of characters, _ any one.
RECURSIVE SqlLike(_, _)
SqlLike(pattern, text) ==
    IF pattern = <<>> THEN text = <<>>
    ELSE IF Head(pattern) = "%"
         THEN \/ SqlLike(Tail(pattern), text)
              \/ text # <<>> /\ SqlLike(pattern, Tail(text))
    ELSE IF Head(pattern) = "_"
         THEN text # <<>> /\ SqlLike(Tail(pattern), Tail(text))
    ELSE /\ text # <<>>
         /\ LikeFold(Head(pattern)) = LikeFold(Head(text))
         /\ SqlLike(Tail(pattern), Tail(text))

\* Mutant of SearchWhere: only the first supplied filter is applied.
SearchWhereFirstOnly(c, q, sector, region) ==
    IF Supplied(q) THEN SqlLike(<<"%">> \o q \o <<"%">>, c.name)
    ELSE IF Supplied(sector) THEN c.sector = sector
    ELSE IF Supplied(region) THEN c.region = region
    ELSE TRUE

\* The WHERE clause /api/search builds: one AND term per supplied filter.
SearchWhere(c, q, sector, region) ==
    /\ Supplied(q) => SqlLike(<<"%">> \o q \o <<"%">>, c.name)
    /\ Supplied(sector) => c.sector = sector
    /\ Supplied(region) => c.region = region

\* Mutant of SortByName: the rows left in table order.
UnsortedByName(s) == s

\* ORDER BY c.name.
RECURSIVE SortByName(_)
SortByName(s) ==
    IF s = <<>> THEN <<>>
    ELSE LET m == CHOOSE i \in 1..Len(s) :
                    /\ \A j \in 1..Len(s) : ~TextLess(s[j].name, s[i].name)
                    /\ \A j \in 1..(i - 1) : s[j].name # s[i].name
         IN  <<s[m]>> \o SortByName(SubSeq(s, 1, m - 1) \o SubSeq(s, m + 1, Len(s)))

\* LIMIT 50 of /api/search.
SearchLimit == 50

\* GET /api/search?q=&sector=&region=.
Search(cs, r) ==
    LET q == IF Supplied(r.q) THEN r.q ELSE Blank
        matched == SelectSeq(cs, LAMBDA c : SearchWhere(c, q, r.sector, r.region))
        ordered == SortByName(matched)
        results == SubSeq(ordered, 1, SqlLimit(Len(ordered), SearchLimit))
    IN  IF r.failAt = 1 THEN Internal("D1_ERROR", 1)
        ELSE [status |-> 200, success |-> TRUE, count |-> Len(results),
              companies |-> results, queries |-> 1]

\* SQL MIN and MAX of a set of numbers: NULL over no rows.
SqlMin(S) == IF S = {} THEN NULL ELSE CHOOSE x \in S : \A y \in S : x <= y

SqlMax(S) == IF S = {} THEN NULL ELSE CHOOSE x \in S : \A y \in S : x >= y

\* Mutant of ListCompanies: an inner JOIN instead of the LEFT JOIN.
ListCompaniesInnerJoin(cs, es, failAt) ==
    LET YearsOf(c) == {es[i].year : i \in {j \in 1..Len(es) : es[j].company_id = c.id}}
        joined == SelectSeq(cs, LAMBDA c : YearsOf(c) # {})
        grouped == [i \in 1..Len(joined) |->
                      joined[i] @@ [emission_records |-> Cardinality(YearsOf(joined[i])),
                                    first_year |-> SqlMin(YearsOf(joined[i])),
                                    latest_year |-> SqlMax(YearsOf(joined[i]))]]
        results == SortByName(grouped)
    IN  IF failAt = 1 THEN Internal("D1_ERROR", 1)
        ELSE [status |-> 200, success |-> TRUE, count |-> Len(results),
              companies |-> results, queries |-> 1]

\* GET /api/companies: companies LEFT JOIN emissions GROUP BY c.id ORDER BY c.name.
ListCompanies(cs, es, failAt) ==
    LET YearsOf(c) == {es[i].year : i \in {j \in 1..Len(es) : es[j].company_id = c.id}}
        CountOf(c) == Cardinality({j \in 1..Len(es) : es[j].company_id = c.id})
        grouped == [i \in 1..Len(cs) |->
                      cs[i] @@ [emission_records |-> CountOf(cs[i]),
                                first_year |-> SqlMin(YearsOf(cs[i])),
                                latest_year |-> SqlMax(YearsOf(cs[i]))]]
        results == SortByName(grouped)
    IN  IF failAt = 1 THEN Internal("D1_ERROR", 1)
        ELSE [status |-> 200, success |-> TRUE, count |-> Len(results),
              companies |-> results, queries |-> 1]

\* Mutant of Descending: the years in ascending order.
RECURSIVE AscendingYears(_)
AscendingYears(S) == IF S = {} THEN <<>> ELSE <<SqlMin(S)>> \o AscendingYears(S \ {SqlMin(S)})

\* ORDER BY year DESC of distinct years.
RECURSIVE Descending(_)
Descending(S) == IF S = {} THEN <<>> ELSE <<SqlMax(S)>> \o Descending(S \ {SqlMax(S)})

\* GET /api/years: SELECT DISTINCT year FROM emissions ORDER BY year DESC.
Years(es, failAt) ==
    IF failAt = 1 THEN Internal("D1_ERROR", 1)
    ELSE [status |-> 200, success |-> TRUE,
          years |-> Descending({es[i].year : i \in 1..Len(es)}), queries |-> 1]

\* Mutant of Stats: COUNT(sector) and COUNT(region) without DISTINCT.
StatsNotDistinct(cs, es, failAt) ==
    IF failAt = 1 THEN Internal("D1_ERROR", 1)
    ELSE [status |-> 200, success |-> TRUE,
          stats |-> [total_companies |-> Len(cs),
                     total_emissions_records |-> Len(es),
                     total_sectors |-> Len(cs),
                     total_regions |-> Len(cs),
                     earliest_year |-> SqlMin({es[i].year : i \in 1..Len(es)}),
                     latest_year |-> SqlMax({es[i].year : i \in 1..Len(es)})],
          queries |-> 1]

\* GET /api/stats: six scalar subqueries in one statement.
Stats(cs, es, failAt) ==
    IF failAt = 1 THEN Internal("D1_ERROR", 1)
    ELSE [status |-> 200, success |-> TRUE,
          stats |-> [total_companies |-> Len(cs),
                     total_emissions_records |-> Len(es),
                     total_sectors |-> Cardinality({cs[i].sector : i \in 1..Len(cs)}),
                     total_regions |-> Cardinality({cs[i].region : i \in 1..Len(cs)}),
                     earliest_year |-> SqlMin({es[i].year : i \in 1..Len(es)}),
                     latest_year |-> SqlMax({es[i].year : i \in 1..Len(es)})],
          queries |-> 1]

\* app.notFound: the answer to a request no route matches.
RouteNotFound ==
    [status |-> 404, success |-> FALSE, error |-> "Not found",
     message |-> "The requested endpoint does not exist", queries |-> 0]

\* GET /: the description of the service.
Root ==
    [status |-> 200, name |-> "Emissions API", version |-> "1.0.0", queries |-> 0]

\* ------------------------------------------------------------ mockApi.js

\* rawData: emissions-data.json holds the lines of the CSV file, every cell a text.
rawData == csv

\* JavaScript truthiness of a text.
Truthy(text) == text # Blank

\* Array.prototype.sort with comparator (a, b) => key(a) - key(b) over the keys
\* given: the stable ascending order, or any order when a key is NaN (the
\* comparator is then inconsistent and the order implementation-defined).
SortOutcomes(keys) ==
    IF \E i \in 1..Len(keys) : keys[i] = NaN
    THEN Orderings(Len(keys))
    ELSE {p \in Orderings(Len(keys)) :
            \A i, j \in 1..Len(keys) : i < j =>
                \/ keys[p[i]] < keys[p[j]]
                \/ keys[p[i]] = keys[p[j]] /\ p[i] < p[j]}

\* Array.prototype.slice(0, end).
JsSlice(s, end) ==
    IF end < 0 THEN SubSeq(s, 1, IF Len(s) + end < 0 THEN 0 ELSE Len(s) + end)
    ELSE SubSeq(s, 1, Min(end, Len(s)))

MockScope2(row) == IF Truthy(row.Scope2) THEN parseFloat(row.Scope2) ELSE 0

MockTotal(row) == JsAdd(JsAdd(parseFloat(row.Scope1), MockScope2(row)), parseFloat(row.Scope3))

MockEmission(row) ==
    [year |-> parseInt(row.Year),
     scope_1 |-> parseFloat(row.Scope1),
     scope_2 |-> IF Truthy(row.Scope2) THEN parseFloat(row.Scope2) ELSE NULL,
     scope_3 |-> parseFloat(row.Scope3),
     total |-> MockTotal(row)]

MockThrow(message) == [status |-> NULL, success |-> FALSE, error |-> message]

\* mockApi.getCompanyData(companyName): the results it can give.
getCompanyData(companyName) ==
    LET companyRows == SelectSeq(rawData, LAMBDA row : row.Company = companyName)
        firstRow == companyRows[1]
        mapped == [i \in 1..Len(companyRows) |-> MockEmission(companyRows[i])]
    IN  IF companyRows = <<>> THEN {MockThrow("Company not found")}
        ELSE {[status |-> NULL, success |-> TRUE,
               company |-> [id |-> 1, name |-> companyName,
                            sector |-> firstRow.Sector, region |-> firstRow.Region,
                            ownership |-> firstRow.Ownership,
                            baseline_year |-> parseInt(firstRow.BaselineYear),
                            net_zero_year |-> parseInt(firstRow.NetZeroYear),
                            interim_target_year |->
                                IF Truthy(firstRow.InterimTargetYear)
                                THEN parseInt(firstRow.InterimTargetYear) ELSE NULL,
                            interim_reduction_percent |->
                                IF Truthy(firstRow.InterimReduction)
                                THEN parseInt(firstRow.InterimReduction) ELSE NULL],
               emissions |-> Reorder(mapped, p)] :
              p \in SortOutcomes([i \in 1..Len(mapped) |-> mapped[i].year])}

\* The rows of s that are the first of their Company, in order.
FirstPerCompany(s) ==
    SelectSeq([i \in 1..Len(s) |->
                 [row |-> s[i],
                  first |-> ~\E j \in 1..(i - 1) : s[j].Company = s[i].Company]],
              LAMBDA x : x.first)

\* mockApi.getPeerCompanies(companyName, limit, year): the results it can give.
getPeerCompanies(companyName, limit, year) ==
    LET mine == SelectSeq(rawData, LAMBDA row : row.Company = companyName)
        companyRow == mine[1]
        sector == companyRow.Sector
        currentRows == SelectSeq(mine, LAMBDA row : parseInt(row.Year) = year)
        currentCompanyEmissions ==
            IF currentRows # <<>> THEN MockTotal(currentRows[1]) ELSE 0
        peerRows == FirstPerCompany(SelectSeq(rawData,
                        LAMBDA row : /\ row.Sector = sector
                                     /\ row.Company # companyName
                                     /\ parseInt(row.Year) = year))
        peerList == [i \in 1..Len(peerRows) |->
                        [name |-> peerRows[i].row.Company,
                         sector |-> peerRows[i].row.Sector,
                         region |-> peerRows[i].row.Region,
                         total_emissions |-> MockTotal(peerRows[i].row),
                         year |-> year, is_current_company |-> 0]]
    IN  IF mine = <<>> THEN {MockThrow("Company not found")}
        ELSE {[status |-> NULL, success |-> TRUE, year |-> year, sector |-> sector,
               companies |-> <<[name |-> companyName, sector |-> sector,
                                region |-> companyRow.Region,
                                total_emissions |-> currentCompanyEmissions,
                                year |-> year, is_current_company |-> 1]>>
                             \o JsSlice(Reorder(peerList, p), limit)] :
              p \in Orderings(Len(peerList))}

\* The Map of mockApi.getSectors (key = "Sector") and mockApi.getRegions
\* (key = "Region"), as the sequence of its values in insertion order.
RECURSIVE MockGroups(_, _, _)
MockGroups(rows, key, map) ==
    IF rows = <<>> THEN map
    ELSE LET row == Head(rows)
             k == row[key]
             at == {i \in 1..Len(map) : map[i].key = k}
             old == IF at = {}
                    THEN [key |-> k, company_count |-> 0, total_scope_1 |-> 0,
                          total_scope_2 |-> 0, total_scope_3 |-> 0,
                          total_emissions |-> 0]
                    ELSE map[CHOOSE i \in at : TRUE]
             new == [key |-> k,
                     company_count |-> old.company_count + 1,
                     total_scope_1 |-> JsAdd(old.total_scope_1, parseFloat(row.Scope1)),
                     total_scope_2 |-> JsAdd(old.total_scope_2, MockScope2(row)),
                     total_scope_3 |-> JsAdd(old.total_scope_3, parseFloat(row.Scope3)),
                     total_emissions |-> JsAdd(old.total_emissions, MockTotal(row))]
         IN  MockGroups(Tail(rows), key,
                        IF at = {} THEN Append(map, new)
                        ELSE [map EXCEPT ![CHOOSE i \in at : TRUE] = new])

\* mockApi.getSectors(year) / getRegions(year): the results they can give; the
\* sort is by (a, b) => b.total_emissions - a.total_emissions.
MockRollup(year, key) ==
    LET rows == SelectSeq(rawData, LAMBDA row : parseInt(row.Year) = year)
        map == MockGroups(rows, key, <<>>)
        keys == [i \in 1..Len(map) |->
                    IF map[i].total_emissions = NaN THEN NaN
                    ELSE 0 - map[i].total_emissions]
    IN  {[status |-> NULL, success |-> TRUE, year |-> year,
          groups |-> Reorder(map, p)] : p \in SortOutcomes(keys)}

\* ------------------------------------------------------------ state machine
\* One operation runs at a time: an import run, or a request whose response
\* is received before the next operation starts.

NoRequest == [op |-> "none"]
NoResponse == [status |-> 0]

N_Z == <<"Z">>

\* The :name parameters requested: stored names, a name differing in case, an
\* unknown name, an escaped name (%42 is B) and a malformed escape.
NameParams == {N_Ab, N_ab, N_B, N_Z, <<"%", "4", "2">>, <<"a", "%">>}

\* GET /api/companies/:name requests; failAt = n > 0: the n-th store query fails.
CompanyRequests ==
    {[op |-> "company", param |-> p, failAt |-> 0] : p \in NameParams}
    \cup {[op |-> "company", param |-> N_Ab, failAt |-> f] : f \in 1..2}

\* GET /api/companies/:name/peers?limit=&year= requests (Blank: not supplied).
PeerRequests ==
    {[op |-> "peers", param |-> p, limit |-> l, year |-> y, failAt |-> 0] :
        p \in {N_Ab, N_B, N_Z}, l \in {Blank, <<"0">>, <<"1">>, <<"-", "1">>},
        y \in {Blank, Y2020}}
    \cup {[op |-> "peers", param |-> <<"a", "%">>, limit |-> Blank, year |-> Blank,
           failAt |-> 0]}
    \cup {[op |-> "peers", param |-> N_Ab, limit |-> Blank, year |-> Y2020,
           failAt |-> f] : f \in 1..3}

\* GET /api/sectors?year= and GET /api/regions?year= requests.
RollupRequests(op) ==
    {[op |-> op, year |-> y, failAt |-> 0] : y \in {Blank, Y2020, Y2022}}
    \cup {[op |-> op, year |-> Y2020, failAt |-> 1]}

\* Calls of the mock client.
MockCompanyCalls ==
    {[op |-> "mockCompany", name |-> n] : n \in {N_Ab, N_ab, N_B, N_Z, <<" ">>}}

MockPeerCalls ==
    {[op |-> "mockPeers", name |-> n, limit |-> l, year |-> y] :
        n \in {N_Ab, N_B, N_Z}, l \in {4, 0, 1, -1}, y \in {2020, 2022}}

MockRollupCalls(op) == {[op |-> op, year |-> y] : y \in {2020, 2022}}

\* The process before node scripts/etl.cjs has run: no exit status, no
\* temp-import.sql, no step done.
EtlNotRun ==
    [exit |-> NULL, sqlFile |-> FALSE, load |-> "none", cleanup |-> FALSE,
     verify |-> "none", summary |-> FALSE]

\* Mutant of EtlOutcome: temp-import.sql is deleted whether or not the load
\* succeeded.
EtlOutcomeAlwaysCleaned(loaded, verified) ==
    IF loaded /\ verified
    THEN [exit |-> 0, sqlFile |-> FALSE, load |-> "ok", cleanup |-> TRUE,
          verify |-> "ok", summary |-> TRUE]
    ELSE IF loaded
    THEN [exit |-> 1, sqlFile |-> FALSE, load |-> "ok", cleanup |-> TRUE,
          verify |-> "failed", summary |-> FALSE]
    ELSE [exit |-> 1, sqlFile |-> FALSE, load |-> "failed", cleanup |-> TRUE,
          verify |-> "none", summary |-> FALSE]

\* Steps 4 and 5 of etl.cjs after temp-import.sql is written: the load, then
\* inside the same try block the cleanup and the three verification queries
\* (verified: none of them fails), then the summary; the catch block exits
\* with status 1.
EtlOutcome(loaded, verified) ==
    IF loaded /\ verified
    THEN [exit |-> 0, sqlFile |-> FALSE, load |-> "ok", cleanup |-> TRUE,
          verify |-> "ok", summary |-> TRUE]
    ELSE IF loaded
    THEN [exit |-> 1, sqlFile |-> FALSE, load |-> "ok", cleanup |-> TRUE,
          verify |-> "failed", summary |-> FALSE]
    ELSE [exit |-> 1, sqlFile |-> TRUE, load |-> "failed", cleanup |-> FALSE,
          verify |-> "none", summary |-> FALSE]

\* The frontend before App is rendered: no view is mounted.
NotMounted == [activeView |-> "none"]

Idle == req = NoRequest

Init ==
    /\ csv \in CsvFiles
    /\ companies = <<>>
    /\ emissions = <<>>
    /\ etl = EtlNotRun
    /\ req = NoRequest
    /\ resp = NoResponse
    /\ view = NotMounted

\* node scripts/etl.cjs: the statements generated from the CSV file are
\* written to temp-import.sql and loaded; the load runs a prefix of them (all
\* of them when it succeeds) and stops at the first statement that fails.
RunEtl ==
    /\ Idle
    /\ \E k \in 0..Len(GenerateSql(csv)), verified \in BOOLEAN :
        LET sql == GenerateSql(csv)
            db == ExecPrefix([companies |-> companies, emissions |-> emissions,
                              ok |-> TRUE], sql, k)
        IN  /\ db.ok
            /\ companies' = db.companies
            /\ emissions' = db.emissions
            /\ etl' = EtlOutcome(k = Len(sql), verified)
            /\ UNCHANGED <<view, csv, req, resp>>

GetCompany ==
    /\ Idle
    /\ \E r \in CompanyRequests :
        /\ req' = r
        /\ resp' = CompanyDetail(companies, emissions, r.param, r.failAt)
    /\ UNCHANGED <<view, csv, companies, emissions, etl>>

GetPeers ==
    /\ Idle
    /\ \E r \in PeerRequests :
        /\ req' = r
        /\ resp' \in PeerComparison(companies, emissions, r)
    /\ UNCHANGED <<view, csv, companies, emissions, etl>>

GetSectors ==
    /\ Idle
    /\ \E r \in RollupRequests("sectors") :
        /\ req' = r
        /\ resp' \in Rollup(companies, emissions, r, "sector")
    /\ UNCHANGED <<view, csv, companies, emissions, etl>>

GetRegions ==
    /\ Idle
    /\ \E r \in RollupRequests("regions") :
        /\ req' = r
        /\ resp' \in Rollup(companies, emissions, r, "region")
    /\ UNCHANGED <<view, csv, companies, emissions, etl>>

MockGetCompanyData ==
    /\ Idle
    /\ \E r \in MockCompanyCalls :
        /\ req' = r
        /\ resp' \in getCompanyData(r.name)
    /\ UNCHANGED <<view, csv, companies, emissions, etl>>

MockGetPeerCompanies ==
    /\ Idle
    /\ \E r \in MockPeerCalls :
        /\ req' = r
        /\ resp' \in getPeerCompanies(r.name, r.limit, r.year)
    /\ UNCHANGED <<view, csv, companies, emissions, etl>>

MockGetSectors ==
    /\ Idle
    /\ \E r \in MockRollupCalls("mockSectors") :
        /\ req' = r
        /\ resp' \in MockRollup(r.year, "Sector")
    /\ UNCHANGED <<view, csv, companies, emissions, etl>>

MockGetRegions ==
    /\ Idle
    /\ \E r \in MockRollupCalls("mockRegions") :
        /\ req' = r
        /\ resp' \in MockRollup(r.year, "Region")
    /\ UNCHANGED <<view, csv, companies, emissions, etl>>

\* GET /api/search requests.
SearchRequests ==
    {[op |-> "search", q |-> q, sector |-> se, region |-> re, failAt |-> 0] :
        q \in {JsUndefined, Blank, <<"a">>, <<"%">>, <<"_">>, <<"B", "c">>},
        se \in {JsUndefined, Blank, SecE},
        re \in {JsUndefined, RegUS, <<"U", "n", "k", "n", "o", "w", "n">>}}
    \cup {[op |-> "search", q |-> JsUndefined, sector |-> JsUndefined,
           region |-> JsUndefined, failAt |-> 1]}

SearchCompanies ==
    /\ Idle
    /\ \E r \in SearchRequests :
        /\ req' = r
        /\ resp' = Search(companies, r)
    /\ UNCHANGED <<view, csv, companies, emissions, etl>>

\* GET /api/companies, GET /api/years and GET /api/stats take no parameter.
PlainRequests(op) == {[op |-> op, failAt |-> f] : f \in 0..1}

GetCompanies ==
    /\ Idle
    /\ \E r \in PlainRequests("list") :
        /\ req' = r
        /\ resp' = ListCompanies(companies, emissions, r.failAt)
    /\ UNCHANGED <<view, csv, companies, emissions, etl>>

GetYears ==
    /\ Idle
    /\ \E r \in PlainRequests("years") :
        /\ req' = r
        /\ resp' = Years(emissions, r.failAt)
    /\ UNCHANGED <<view, csv, companies, emissions, etl>>

GetStats ==
    /\ Idle
    /\ \E r \in PlainRequests("stats") :
        /\ req' = r
        /\ resp' = Stats(companies, emissions, r.failAt)
    /\ UNCHANGED <<view, csv, companies, emissions, etl>>

\* A request no route matches, such as GET /api/unknown or POST /api/companies.
GetUnmatched ==
    /\ Idle
    /\ req' = [op |-> "unmatched", failAt |-> 0]
    /\ resp' = RouteNotFound
    /\ UNCHANGED <<view, csv, companies, emissions, etl>>

GetRoot ==
    /\ Idle
    /\ req' = [op |-> "root", failAt |-> 0]
    /\ resp' = Root
    /\ UNCHANGED <<view, csv, companies, emissions, etl>>

\* The caller receives the response.
Receive ==
    /\ ~Idle
    /\ req' = NoRequest
    /\ resp' = NoResponse
    /\ UNCHANGED <<view, csv, companies, emissions, etl>>

Next ==
    \/ RunEtl
    \/ GetCompany
    \/ GetPeers
    \/ GetSectors
    \/ GetRegions
    \/ MockGetCompanyData
    \/ MockGetPeerCompanies
    \/ MockGetSectors
    \/ MockGetRegions
    \/ GetCompanies
    \/ GetYears
    \/ GetStats
    \/ SearchCompanies
    \/ GetUnmatched
    \/ GetRoot
    \/ Receive

Spec == Init /\ [][Next]_vars

\* The search specification: the store is loaded from the bulk CSV file, so
\* that more than SearchLimit companies can match.
InitSearch ==
    /\ csv = BulkCsv
    /\ companies = <<>>
    /\ emissions = <<>>
    /\ etl = EtlNotRun
    /\ req = NoRequest
    /\ resp = NoResponse
    /\ view = NotMounted

NextSearch ==
    \/ RunEtl
    \/ SearchCompanies
    \/ Receive

SpecSearch == InitSearch /\ [][NextSearch]_vars

\* The import specification: the import is run, any number of times, on a CSV
\* file drawn from the import's data lines.
InitImport ==
    /\ csv \in ImportCsvFiles
    /\ companies = <<>>
    /\ emissions = <<>>
    /\ etl = EtlNotRun
    /\ req = NoRequest
    /\ resp = NoResponse
    /\ view = NotMounted

NextImport == RunEtl

SpecImport == InitImport /\ [][NextImport]_vars

\* The reload specification: CSV_FILE is overwritten with another file between
\* runs of the import, any number of times.
InitReload ==
    /\ csv \in ReloadCsvFiles
    /\ companies = <<>>
    /\ emissions = <<>>
    /\ etl = EtlNotRun
    /\ req = NoRequest
    /\ resp = NoResponse
    /\ view = NotMounted

ReplaceCsv ==
    /\ Idle
    /\ csv' \in ReloadCsvFiles \ {csv}
    /\ UNCHANGED <<view, companies, emissions, etl, req, resp>>

NextReload ==
    \/ RunEtl
    \/ ReplaceCsv

SpecReload == InitReload /\ [][NextReload]_vars

\* The requests specification: the store holds what the import of the CSV
\* file left, and two clients send requests whose store queries interleave.
\* req[c] is the request of client c in flight with the number pc of its
\* next query and the rows got that its queries returned so far; resp[c] is
\* the response once the handler has returned it.
Clients == {"a", "b"}

ConcurrentRequests ==
    { [op |-> "company", param |-> N_Ab, failAt |-> 0],
      [op |-> "company", param |-> N_Z, failAt |-> 0],
      [op |-> "peers", param |-> N_Ab, limit |-> <<"1">>, year |-> Y2020, failAt |-> 0],
      [op |-> "list", failAt |-> 0],
      [op |-> "sectors", year |-> Y2020, failAt |-> 0],
      [op |-> "regions", year |-> Y2020, failAt |-> 0],
      [op |-> "search", q |-> <<"a">>, sector |-> JsUndefined, region |-> RegUS,
       failAt |-> 0],
      [op |-> "years", failAt |-> 0],
      [op |-> "stats", failAt |-> 0] }

\* The store after node scripts/etl.cjs has run on a CSV file.
Loaded(lines) ==
    ExecPrefix([companies |-> <<>>, emissions |-> <<>>, ok |-> TRUE],
               GenerateSql(lines), Len(GenerateSql(lines)))

\* Mutant of AfterSelect: the statement deletes the rows it read.
AfterSelectCleared(table) == <<>>

\* A table after a prepared statement of a handler has run: every statement
\* of index.js is a SELECT.
AfterSelect(table) == table

\* The CSV files of the requests specification: lines of three companies,
\* one with two years, one without Scope 1 and Scope 2.
RequestCsvFiles ==
    SeqsUpTo({r \in CsvRowPool : Trim(r.Company) # Blank /\ r.Year # Blank}, MaxRows)

InitRequests ==
    /\ csv \in RequestCsvFiles
    /\ companies = Loaded(csv).companies
    /\ emissions = Loaded(csv).emissions
    /\ etl \in {EtlOutcome(Loaded(csv).ok, v) : v \in BOOLEAN}
    /\ req = [c \in Clients |-> NoRequest]
    /\ resp = [c \in Clients |-> NoResponse]
    /\ view = NotMounted

\* A client sends a request while it has none in flight.
Send(c) ==
    /\ req[c] = NoRequest
    /\ \E r \in ConcurrentRequests :
          req' = [req EXCEPT ![c] = [r |-> r, pc |-> 1, got |-> <<>>]]
    /\ UNCHANGED <<view, csv, companies, emissions, etl, resp>>

\* The outcomes of the next store query of the handler of req[c]: the
\* response it returns, or the rows it goes on with.
QueryOutcomes(c) ==
    LET r == req[c].r
        got == req[c].got
        Return(x) == [done |-> TRUE, resp |-> x, got |-> got]
        GoOn(rows) == [done |-> FALSE, resp |-> NoResponse, got |-> Append(got, rows)]
    IN  CASE r.op = "company" /\ req[c].pc = 1 ->
                LET found == CompaniesNamed(companies, decodeURIComponent(r.param).value)
                IN  {IF found = <<>> THEN Return(NotFound(1)) ELSE GoOn(found)}
          [] r.op = "company" /\ req[c].pc = 2 ->
                LET rows == EmissionsOf(emissions, got[1][1].id)
                IN  {Return([status |-> 200, success |-> TRUE, company |-> got[1][1],
                             emissions |-> rows, summary |-> Summary(rows, got[1][1]),
                             queries |-> 2])}
          [] r.op = "peers" /\ req[c].pc = 1 ->
                LET found == CompaniesNamed(companies, decodeURIComponent(r.param).value)
                IN  {IF found = <<>> THEN Return(NotFound(1)) ELSE GoOn(found)}
          [] r.op = "peers" /\ req[c].pc = 2 ->
                {GoOn(CurrentCompanyEmissions(companies, emissions,
                          decodeURIComponent(r.param).value, parseInt(r.year)))}
          [] r.op = "peers" /\ req[c].pc = 3 ->
                LET all == PeerRows(companies, emissions, got[1][1].sector,
                                    decodeURIComponent(r.param).value, parseInt(r.year))
                IN  {Return([status |-> 200, success |-> TRUE, year |-> parseInt(r.year),
                             sector |-> got[1][1].sector,
                             companies |-> (IF got[2] # <<>> THEN <<got[2][1]>> ELSE <<>>)
                                           \o peers,
                             queries |-> 3]) : peers \in RandomSample(all, parseInt(r.limit))}
          [] r.op = "list" -> {Return(ListCompanies(companies, emissions, 0))}
          [] r.op = "sectors" -> {Return(x) : x \in Rollup(companies, emissions, r, "sector")}
          [] r.op = "regions" -> {Return(x) : x \in Rollup(companies, emissions, r, "region")}
          [] r.op = "search" -> {Return(Search(companies, r))}
          [] r.op = "years" -> {Return(Years(emissions, 0))}
          [] r.op = "stats" -> {Return(Stats(companies, emissions, 0))}

\* The handler of the request of client c runs its next store query.
Query(c) ==
    /\ req[c] # NoRequest
    /\ resp[c] = NoResponse
    /\ \E o \in QueryOutcomes(c) :
          /\ req' = [req EXCEPT ![c] = [@ EXCEPT !.pc = @ + 1, !.got = o.got]]
          /\ resp' = [resp EXCEPT ![c] = o.resp]
    /\ companies' = AfterSelect(companies)
    /\ emissions' = AfterSelect(emissions)
    /\ UNCHANGED <<view, csv, etl>>

\* Client c receives its response.
Deliver(c) ==
    /\ resp[c] # NoResponse
    /\ req' = [req EXCEPT ![c] = NoRequest]
    /\ resp' = [resp EXCEPT ![c] = NoResponse]
    /\ UNCHANGED <<view, csv, companies, emissions, etl>>

NextRequests == \E c \in Clients : Send(c) \/ Query(c) \/ Deliver(c)

SpecRequests == InitRequests /\ [][NextRequests]_vars

\* The names specification: the import is run on lines whose company names
\* hold no, one or two apostrophes, and the peer comparison is requested for
\* the names the store holds.
N_OB == <<"O", "'", "'", "B">>

NameRowPool ==
    { Row(N_O, SecE, RegEU, Y2020, <<"9">>, <<"9">>, <<"9">>, Blank),
      Row(N_OB, SecE, RegUS, Y2020, <<"4">>, Blank, <<"4">>, Blank),
      Row(N_Ab, SecE, RegEU, Y2020, <<"1">>, <<"2">>, <<"3">>, Y2020),
      Row(N_B, SecE, RegUS, Y2022, <<"0">>, <<"0">>, <<"0">>, Blank) }

NameCsvFiles == SeqsUpTo(NameRowPool, MaxRows)

InitNames ==
    /\ csv \in NameCsvFiles
    /\ companies = <<>>
    /\ emissions = <<>>
    /\ etl = EtlNotRun
    /\ req = NoRequest
    /\ resp = NoResponse
    /\ view = NotMounted

\* GET /api/companies/:name/peers?year= for the name of a stored company;
\* encodeURIComponent leaves letters and the apostrophe as they are.
GetPeersOfStored ==
    /\ Idle
    /\ \E i \in 1..Len(companies), y \in {Blank, Y2020} :
        LET r == [op |-> "peers", param |-> companies[i].name, limit |-> Blank,
                  year |-> y, failAt |-> 0]
        IN  /\ req' = r
            /\ resp' \in PeerComparison(companies, emissions, r)
    /\ UNCHANGED <<view, csv, companies, emissions, etl>>

NextNames ==
    \/ RunEtl
    \/ GetPeersOfStored
    \/ Receive

SpecNames == InitNames /\ [][NextNames]_vars

\* ------------------------------------------------------------ data.js

\* encodeURIComponent over the model's characters: letters, digits, _ and '
\* are left as they are, % and the space are escaped.
RECURSIVE encodeURIComponent(_)
encodeURIComponent(s) ==
    IF s = <<>> THEN <<>>
    ELSE (CASE Head(s) = "%" -> <<"%", "2", "5">>
            [] Head(s) = " " -> <<"%", "2", "0">>
            [] OTHER -> <<Head(s)>>) \o encodeURIComponent(Tail(s))

\* `${n}` of a number n >= 0: its decimal digits.
RECURSIVE NumberText(_)
NumberText(n) ==
    LET digit == CHOOSE ch \in {"0", "1", "2", "3", "4", "5", "6", "7", "8", "9"} :
                    CharCode(ch) - 48 = n % 10
    IN  IF n < 10 THEN <<digit>> ELSE NumberText(n \div 10) \o <<digit>>

\* A promise: pending, resolved with a value, or rejected with an Error.
Pending == [state |-> "pending"]

Resolved(value) == [state |-> "resolved", value |-> value]

Rejected(message) == [state |-> "rejected", message |-> message]

\* fetch() itself rejects when the request cannot be made.
NetworkError == Rejected("NetworkError")

\* fetchAllCompanies(): the ways its promise can settle.
fetchAllCompanies ==
    {IF r.status = 200 THEN Resolved(r.companies)
     ELSE Rejected("Failed to fetch companies") :
        r \in {ListCompanies(companies, emissions, f) : f \in 0..1}}
    \cup {NetworkError}

\* fetchCompanyData(companyName): resolves with the whole JSON body.
fetchCompanyData(companyName) ==
    {IF r.status = 200 THEN Resolved(r)
     ELSE Rejected("Failed to fetch company data") :
        r \in {CompanyDetail(companies, emissions, encodeURIComponent(companyName), f) :
                  f \in 0..2}}
    \cup {NetworkError}

\* fetchPeerCompanies(companyName, limit, year): resolves with data.companies.
fetchPeerCompanies(companyName, limit, year) ==
    {IF r.status = 200 THEN Resolved(r.companies)
     ELSE Rejected("Failed to fetch peer companies") :
        r \in UNION {PeerComparison(companies, emissions,
                        [op |-> "peers", param |-> encodeURIComponent(companyName),
                         limit |-> NumberText(limit), year |-> NumberText(year),
                         failAt |-> f]) : f \in 0..3}}
    \cup {NetworkError}

\* fetchSectors(year): resolves with data.sectors.
fetchSectors(year) ==
    {IF r.status = 200 THEN Resolved(r.groups)
     ELSE Rejected("Failed to fetch sectors") :
        r \in UNION {Rollup(companies, emissions,
                        [op |-> "sectors", year |-> NumberText(year), failAt |-> f],
                        "sector") : f \in 0..1}}
    \cup {NetworkError}

\* Mutant of fetchRegions: the year is not passed on, so that the API takes
\* its default, the current year.
fetchRegionsDefaultYear(year) ==
    {IF r.status = 200 THEN Resolved(r.groups)
     ELSE Rejected("Failed to fetch regions") :
        r \in UNION {Rollup(companies, emissions,
                        [op |-> "regions", year |-> Blank, failAt |-> f],
                        "region") : f \in 0..1}}
    \cup {NetworkError}

\* fetchRegions(year): resolves with data.regions.
fetchRegions(year) ==
    {IF r.status = 200 THEN Resolved(r.groups)
     ELSE Rejected("Failed to fetch regions") :
        r \in UNION {Rollup(companies, emissions,
                        [op |-> "regions", year |-> NumberText(year), failAt |-> f],
                        "region") : f \in 0..1}}
    \cup {NetworkError}

\* ------------------------------------------------------------ the views

\* null in the error state of a view (no message).
NoError == "null"

\* if (error): a message is truthy unless it is empty.
ErrorShown(v) == v.error # NoError /\ v.error # ""

\* Mutant of CatchBlock: setLoading(false) is left out.
CatchBlockStillLoading(v, message) ==
    [v EXCEPT !.error = message, !.failed = Append(@, message)]

\* The catch block of loadData: setError(err.message); setLoading(false).
\* failed keeps the messages of the fetches that made the latest loadData of
\* the mounted view fail.
CatchBlock(v, message) ==
    [v EXCEPT !.error = message, !.loading = FALSE, !.failed = Append(@, message)]

\* A sequence without its i-th element.
Without(s, i) == SubSeq(s, 1, i - 1) \o SubSeq(s, i + 1, Len(s))

\* ---- InvestorView

availableYears == <<2018, 2019, 2020, 2021, 2022>>

\* No load: the results a view holds before its first load has ended.
NoLoad == [id |-> 0, year |-> NULL, name |-> Blank]

\* loadData of InvestorView up to its await: setLoading(true), setError(null)
\* and the two fetches for selectedYear started.  loads holds the calls of
\* loadData whose fetches have not all settled; settled: Promise.all of the
\* call has resolved or rejected.
InvestorLoadData(v) ==
    [v EXCEPT !.loading = TRUE, !.error = NoError, !.started = @ + 1,
              !.failed = <<>>,
              !.loads = Append(@, [id |-> v.started + 1, year |-> v.selectedYear,
                                   sectors |-> Pending, regions |-> Pending,
                                   settled |-> FALSE])]

\* InvestorView after it is mounted: the initial state and the first run of
\* the effect.  sectorsFrom and regionsFrom record the load whose results
\* sectors and regions hold.
InvestorMounted(events) ==
    InvestorLoadData(
        [activeView |-> "investor", events |-> events, sectors |-> <<>>,
         regions |-> <<>>, selectedYear |-> 2022, loading |-> TRUE,
         error |-> NoError, loads |-> <<>>, started |-> 0, failed |-> <<>>,
         sectorsFrom |-> NoLoad, regionsFrom |-> NoLoad])

\* Mutant of YearSelectorShown: the year buttons are shown on every screen.
YearSelectorAlwaysShown(v) == TRUE

\* The year buttons are part of the main screen only: the loading and the
\* error screen return before them.
YearSelectorShown(v) == ~v.loading /\ ~ErrorShown(v)

\* The rest of loadData of InvestorView when the fetch `which` of the i-th
\* call settles with o: Promise.all rejects with the first rejection and
\* resolves when both fetches have resolved; a fetch that settles after the
\* rejection is ignored.
InvestorAwait(v, i, which, o) ==
    LET l == [v.loads[i] EXCEPT ![which] = o]
        over == l.sectors.state # "pending" /\ l.regions.state # "pending"
        from == [id |-> l.id, year |-> l.year, name |-> Blank]
        w == [v EXCEPT !.loads = IF over THEN Without(@, i)
                                 ELSE [@ EXCEPT ![i] = [l EXCEPT !.settled =
                                          @ \/ o.state = "rejected"]]]
    IN  IF l.settled THEN w
        ELSE IF o.state = "rejected" THEN CatchBlock(w, o.message)
        ELSE IF over
        THEN [w EXCEPT !.sectors = l.sectors.value, !.regions = l.regions.value,
                       !.loading = FALSE, !.sectorsFrom = from, !.regionsFrom = from]
        ELSE w

\* ---- CorporateView

N_Climate == <<"C", "l", "i", "m", "a", "t", "e", " ", "C", "o", "r", "p">>

\* null in companyData.
NoCompanyData == [id |-> NULL]

\* JavaScript truthiness of a number or undefined (NULL here).
TruthyNumber(n) == n # NULL /\ n # NaN /\ n # 0

\* loadData of CorporateView up to its first await.  awaiting names the fetch
\* the call waits for; year is latestYear once the company's data has arrived.
CorporateLoadData(v) ==
    IF v.selectedCompanyName = Blank THEN v
    ELSE [v EXCEPT !.loading = TRUE, !.error = NoError, !.started = @ + 1,
                   !.failed = <<>>,
                   !.loads = Append(@, [id |-> v.started + 1,
                                        name |-> v.selectedCompanyName,
                                        awaiting |-> "company", year |-> NULL])]

\* CorporateView after it is mounted: the initial state and the first run of
\* both effects (loadCompanies, whose fetch is listFetch, and loadData).
\* peersFrom records the load whose result peerCompanies holds.
CorporateMounted(events) ==
    CorporateLoadData(
        [activeView |-> "corporate", events |-> events, companies |-> <<>>,
         listFetch |-> Pending, selectedCompanyName |-> N_Climate,
         companyData |-> NoCompanyData, emissionsData |-> <<>>,
         peerCompanies |-> <<>>, loading |-> TRUE, error |-> NoError,
         loads |-> <<>>, started |-> 0, failed |-> <<>>, peersFrom |-> NoLoad])

\* loadData of CorporateView after await fetchCompanyData settles with o.
CorporateAfterCompanyData(v, i, o) ==
    IF o.state = "rejected"
    THEN CatchBlock([v EXCEPT !.loads = Without(@, i)], o.message)
    ELSE LET data == o.value
             latestYear == IF data.emissions = <<>> THEN NULL
                           ELSE data.emissions[Len(data.emissions)].year
             w == [v EXCEPT !.companyData = data.company,
                            !.emissionsData = data.emissions]
         IN  IF TruthyNumber(latestYear)
             THEN [w EXCEPT !.loads[i] = [@ EXCEPT !.awaiting = "peers",
                                                   !.year = latestYear]]
             ELSE [w EXCEPT !.loading = FALSE, !.loads = Without(@, i)]

\* loadData of CorporateView after await fetchPeerCompanies settles with o.
CorporateAfterPeers(v, i, o) ==
    IF o.state = "rejected"
    THEN CatchBlock([v EXCEPT !.loads = Without(@, i)], o.message)
    ELSE [v EXCEPT !.peerCompanies = o.value,
                   !.peersFrom = [id |-> v.loads[i].id, year |-> v.loads[i].year,
                                  name |-> v.loads[i].name],
                   !.loading = FALSE, !.loads = Without(@, i)]

\* The main screen of CorporateView is rendered: not the loading, the error
\* or the no-data screen.
CorporateMainShown(v) ==
    /\ ~v.loading
    /\ ~ErrorShown(v)
    /\ v.companyData # NoCompanyData
    /\ v.emissionsData # <<>>

CompanySelectorShown(v) == CorporateMainShown(v) /\ v.companies # <<>>

PeerChartShown(v) == CorporateMainShown(v) /\ v.peerCompanies # <<>>

\* ---- App and the views specification

\* The data lines of the views specification: Climate Corp with two years, a
\* peer of its sector, a company whose only record is of year 0, a company
\* without records and a company of another sector.
ViewCsv ==
    << Row(N_Climate, SecE, RegEU, Y2020, <<"1","0","0">>, <<"5","0">>, <<"2","0","0">>, Y2020),
       Row(N_Climate, SecE, RegEU, Y2022, <<"8","0">>, <<"4","0">>, <<"1","5","0">>, Y2020),
       Row(N_B, SecE, RegUS, Y2022, <<"0">>, <<"0">>, <<"0">>, Blank),
       Row(N_Z, SecE, RegEU, <<"0">>, <<"7">>, Blank, <<"7">>, Blank),
       Row(N_ab, SecT, RegUS, Blank, Blank, Blank, Blank, Blank),
       Row(N_Ab, SecT, RegUS, Y2022, <<"1">>, Blank, <<"3">>, Blank) >>

\* The CSV files of the views specification: the first lines of ViewCsv.
ViewCsvFiles == {SubSeq(ViewCsv, 1, n) : n \in 0..Len(ViewCsv)}

\* <CorporateView /> or <InvestorView /> once mounted.
Mounted(activeView, events) ==
    IF activeView = "investor" THEN InvestorMounted(events)
    ELSE CorporateMounted(events)

\* App starts with the corporate view, over the store the import left.
InitViews ==
    /\ csv \in ViewCsvFiles
    /\ companies = Loaded(csv).companies
    /\ emissions = Loaded(csv).emissions
    /\ etl = EtlOutcome(TRUE, TRUE)
    /\ req = NoRequest
    /\ resp = NoResponse
    /\ view = Mounted("corporate", 0)

\* A click on the other view's button of App: the mounted view is unmounted,
\* so that what its fetches in flight set no longer shows, and the other one
\* is mounted.
SetActiveView ==
    /\ view.events < MaxEvents
    /\ \E a \in {"corporate", "investor"} \ {view.activeView} :
          view' = Mounted(a, view.events + 1)
    /\ UNCHANGED <<csv, companies, emissions, etl, req, resp>>

\* A click on the button of another year: setSelectedYear(year), after which
\* the effect runs loadData.
SelectYear ==
    /\ view.activeView = "investor"
    /\ view.events < MaxEvents
    /\ YearSelectorShown(view)
    /\ \E k \in DOMAIN availableYears :
          /\ availableYears[k] # view.selectedYear
          /\ view' = InvestorLoadData([view EXCEPT !.selectedYear = availableYears[k],
                                                   !.events = @ + 1])
    /\ UNCHANGED <<csv, companies, emissions, etl, req, resp>>

\* A fetch in flight settles: the request fails before an answer arrives, or
\* it settles with one of the outcomes of the function of data.js, the failed
\* request among them. The failed request comes first in each action, so that
\* whether the action is enabled is decided without the API being evaluated.
FetchSectorsSettles ==
    /\ view.activeView = "investor"
    /\ \E i \in DOMAIN view.loads :
          /\ view.loads[i].sectors = Pending
          /\ \/ view' = InvestorAwait(view, i, "sectors", NetworkError)
             \/ \E o \in fetchSectors(view.loads[i].year) :
                   view' = InvestorAwait(view, i, "sectors", o)
    /\ UNCHANGED <<csv, companies, emissions, etl, req, resp>>

FetchRegionsSettles ==
    /\ view.activeView = "investor"
    /\ \E i \in DOMAIN view.loads :
          /\ view.loads[i].regions = Pending
          /\ \/ view' = InvestorAwait(view, i, "regions", NetworkError)
             \/ \E o \in fetchRegions(view.loads[i].year) :
                   view' = InvestorAwait(view, i, "regions", o)
    /\ UNCHANGED <<csv, companies, emissions, etl, req, resp>>

\* Another option of the company selector is chosen:
\* setSelectedCompanyName(e.target.value), after which the effect runs loadData.
SelectCompany ==
    /\ view.activeView = "corporate"
    /\ view.events < MaxEvents
    /\ CompanySelectorShown(view)
    /\ \E k \in DOMAIN view.companies :
          /\ view.companies[k].name # view.selectedCompanyName
          /\ view' = CorporateLoadData(
                        [view EXCEPT !.selectedCompanyName = view.companies[k].name,
                                     !.events = @ + 1])
    /\ UNCHANGED <<csv, companies, emissions, etl, req, resp>>

\* loadCompanies: setCompanies on success; a failure is only logged.
FetchAllCompaniesSettles ==
    /\ view.activeView = "corporate"
    /\ view.listFetch = Pending
    /\ \/ view' = [view EXCEPT !.listFetch = NetworkError]
       \/ \E o \in fetchAllCompanies :
             view' = [view EXCEPT !.listFetch = o,
                                  !.companies = IF o.state = "resolved" THEN o.value
                                                ELSE @]
    /\ UNCHANGED <<csv, companies, emissions, etl, req, resp>>

FetchCompanyDataSettles ==
    /\ view.activeView = "corporate"
    /\ \E i \in DOMAIN view.loads :
          /\ view.loads[i].awaiting = "company"
          /\ \/ view' = CorporateAfterCompanyData(view, i, NetworkError)
             \/ \E o \in fetchCompanyData(view.loads[i].name) :
                   view' = CorporateAfterCompanyData(view, i, o)
    /\ UNCHANGED <<csv, companies, emissions, etl, req, resp>>

FetchPeerCompaniesSettles ==
    /\ view.activeView = "corporate"
    /\ \E i \in DOMAIN view.loads :
          /\ view.loads[i].awaiting = "peers"
          /\ \/ view' = CorporateAfterPeers(view, i, NetworkError)
             \/ \E o \in fetchPeerCompanies(view.loads[i].name, 4, view.loads[i].year) :
                   view' = CorporateAfterPeers(view, i, o)
    /\ UNCHANGED <<csv, companies, emissions, etl, req, resp>>

\* The Retry button of the error screen of CorporateView:
\* window.location.reload() starts App again.
Retry ==
    /\ view.activeView = "corporate"
    /\ view.events < MaxEvents
    /\ ~view.loading
    /\ ErrorShown(view)
    /\ view' = Mounted("corporate", view.events + 1)
    /\ UNCHANGED <<csv, companies, emissions, etl, req, resp>>

NextViews ==
    \/ SetActiveView
    \/ SelectYear
    \/ FetchSectorsSettles
    \/ FetchRegionsSettles
    \/ SelectCompany
    \/ FetchAllCompaniesSettles
    \/ FetchCompanyDataSettles
    \/ FetchPeerCompaniesSettles
    \/ Retry

SpecViews == InitViews /\ [][NextViews]_vars

\* Every fetch eventually resolves or rejects: the browser settles the promise
\* of every request, with the response or with a network error.
SpecViewsLive ==
    /\ SpecViews
    /\ WF_vars(FetchSectorsSettles)
    /\ WF_vars(FetchRegionsSettles)
    /\ WF_vars(FetchAllCompaniesSettles)
    /\ WF_vars(FetchCompanyDataSettles)
    /\ WF_vars(FetchPeerCompaniesSettles)

\* ------------------------------------------------------------ claims

Range(s) == {s[i] : i \in 1..Len(s)}

ApiOk(op) == req.op = op /\ resp.status = 200

MockOk(op) == req.op = op /\ resp.success

\* scope_1 + (scope_2 if present, else 0) + scope_3, NaN if a term is NaN.
TotalOf(scope_1, scope_2, scope_3) ==
    IF scope_1 = NaN \/ scope_2 = NaN \/ scope_3 = NaN THEN NaN
    ELSE scope_1 + (IF scope_2 = NULL THEN 0 ELSE scope_2) + scope_3

\* The stored records of the company named name for a year.
StoredRecords(name, year) ==
    {e \in Range(emissions) :
        /\ e.year = year
        /\ \E c \in Range(companies) : c.name = name /\ c.id = e.company_id}

\* C1: every emission record returned by company detail (API and mock) has
\* total = scope_1 + (scope_2 or 0) + scope_3, and every entry returned by the
\* peer comparison has as total_emissions that sum over the stored record of
\* the entry's company and year.
C1_TotalIsSumOfScopes ==
    /\ (ApiOk("company") \/ MockOk("mockCompany")) =>
         \A e \in Range(resp.emissions) :
            e.total = TotalOf(e.scope_1, e.scope_2, e.scope_3)
    /\ ApiOk("peers") =>
         \A x \in Range(resp.companies) :
            \E e \in StoredRecords(x.name, x.year) :
               x.total_emissions = TotalOf(e.scope_1, e.scope_2, e.scope_3)

\* C1 witness: a detail response with a record without scope_2 and a positive total.
C1_Witness ==
    /\ ApiOk("company")
    /\ \E e \in Range(resp.emissions) : e.scope_2 = NULL /\ e.total > 0

\* C2: a request (detail or peers, any limit and year) for a name that is not
\* exactly the name of a stored company, whose lookup query does not fail, is
\* answered 404, success false, "Company not found" after that one query; the
\* mock client throws 'Company not found'.
C2_UnknownNameNotFound ==
    /\ (req.op \in {"company", "peers"}
        /\ decodeURIComponent(req.param).ok
        /\ req.failAt # 1
        /\ \A c \in Range(companies) : c.name # decodeURIComponent(req.param).value)
       => /\ resp.status = 404
          /\ resp.success = FALSE
          /\ resp.error = "Company not found"
          /\ resp.queries = 1
    /\ (req.op \in {"mockCompany", "mockPeers"}
        /\ \A row \in Range(rawData) : row.Company # req.name)
       => /\ resp.success = FALSE
          /\ resp.error = "Company not found"

\* C2 witness: a name that differs from a stored name only in case is not found.
C2_Witness ==
    /\ req.op \in {"company", "peers"}
    /\ req.param = N_ab
    /\ \E c \in Range(companies) : c.name = N_Ab
    /\ resp.status = 404

\* C3: the emissions of a company detail response are exactly the stored
\* records of that company, in strictly ascending order of year.
C3_EmissionsStrictlyAscending ==
    ApiOk("company") =>
        LET mine == {e \in Range(emissions) : e.company_id = resp.company.id}
            Fields(e) == <<e.year, e.scope_1, e.scope_2, e.scope_3>>
        IN  /\ \A i, j \in 1..Len(resp.emissions) :
                  i < j => resp.emissions[i].year < resp.emissions[j].year
            /\ {Fields(e) : e \in Range(resp.emissions)} = {Fields(e) : e \in mine}
            /\ Len(resp.emissions) =
                 Len(SelectSeq(emissions, LAMBDA e : e.company_id = resp.company.id))

\* C3 witness: a response of two records whose rows were stored in the
\* opposite order.
C3_Witness ==
    /\ ApiOk("company")
    /\ Len(resp.emissions) >= 2
    /\ \E i, j \in 1..Len(emissions) :
          /\ i < j
          /\ emissions[i].company_id = resp.company.id
          /\ emissions[j].company_id = resp.company.id
          /\ emissions[i].year > emissions[j].year

\* C4: the summary of a company detail response has total_records = the number
\* of the company's records, baseline_emissions = the total of the record of
\* the baseline year (null exactly when there is none) and latest_emissions =
\* the total of the record of the greatest year (null exactly when the company
\* has no records).
C4_SummaryAsClaimed ==
    ApiOk("company") =>
        LET mine == {e \in Range(emissions) : e.company_id = resp.company.id}
            base == {e \in mine : e.year = resp.company.baseline_year}
            last == {e \in mine : \A f \in mine : f.year <= e.year}
            Total(S) == LET e == CHOOSE x \in S : TRUE
                        IN  TotalOf(e.scope_1, e.scope_2, e.scope_3)
        IN  /\ resp.summary.total_records = Cardinality(mine)
            /\ resp.summary.baseline_emissions = (IF base = {} THEN NULL ELSE Total(base))
            /\ resp.summary.latest_emissions = (IF mine = {} THEN NULL ELSE Total(last))

\* The entries of a peer comparison with a given is_current_company flag.
EntriesFlagged(flag) == SelectSeq(resp.companies, LAMBDA x : x.is_current_company = flag)

\* C5: a peer comparison for an existing company with limit N >= 0 holds at
\* most N peer entries, and exactly one current-company entry when the company
\* has a record for the requested year, none otherwise (API and mock client).
C5_PeerCountsAsClaimed ==
    /\ ApiOk("peers") =>
         /\ parseInt(QueryOr(req.limit, <<"5">>)) >= 0 =>
               Len(EntriesFlagged(0)) <= parseInt(QueryOr(req.limit, <<"5">>))
         /\ Len(EntriesFlagged(1)) =
               (IF StoredRecords(decodeURIComponent(req.param).value, resp.year) # {}
                THEN 1 ELSE 0)
    /\ MockOk("mockPeers") =>
         /\ req.limit >= 0 => Len(EntriesFlagged(0)) <= req.limit
         /\ Len(EntriesFlagged(1)) =
               (IF \E row \in Range(rawData) :
                      row.Company = req.name /\ parseInt(row.Year) = req.year
                THEN 1 ELSE 0)

\* JavaScript sum of numbers: NaN if one of them is NaN.
JsSum(values) == IF \E i \in 1..Len(values) : values[i] = NaN THEN NaN ELSE SumSeq(values)

\* C6: in the sector and the region rollup of a year (API and mock client) the
\* total_emissions of the groups add up to the sum of scope_1 + (scope_2 or 0)
\* + scope_3 over the records of that year, and every record of the year is
\* counted in exactly one group.
C6_RollupSumsToYearTotal ==
    /\ (ApiOk("sectors") \/ ApiOk("regions")) =>
         LET recs == SelectSeq(emissions, LAMBDA e : e.year = resp.year)
             KeyOf(e) == LET c == CHOOSE c \in Range(companies) : c.id = e.company_id
                         IN  IF req.op = "sectors" THEN c.sector ELSE c.region
         IN  /\ SumSeq([i \in 1..Len(resp.groups) |-> resp.groups[i].total_emissions])
                  = SumSeq([i \in 1..Len(recs) |->
                              TotalOf(recs[i].scope_1, recs[i].scope_2, recs[i].scope_3)])
             /\ \A i \in 1..Len(recs) :
                  Cardinality({k \in 1..Len(resp.groups) :
                                  resp.groups[k].key = KeyOf(recs[i])}) = 1
             /\ SumSeq([i \in 1..Len(resp.groups) |-> resp.groups[i].company_count])
                  = Len(recs)
    /\ (MockOk("mockSectors") \/ MockOk("mockRegions")) =>
         LET rows == SelectSeq(rawData, LAMBDA row : parseInt(row.Year) = req.year)
             KeyOf(row) == IF req.op = "mockSectors" THEN row.Sector ELSE row.Region
         IN  /\ JsSum([i \in 1..Len(resp.groups) |-> resp.groups[i].total_emissions])
                  = JsSum([i \in 1..Len(rows) |->
                             TotalOf(parseFloat(rows[i].Scope1),
                                     IF rows[i].Scope2 = Blank THEN NULL
                                     ELSE parseFloat(rows[i].Scope2),
                                     parseFloat(rows[i].Scope3))])
             /\ \A i \in 1..Len(rows) :
                  Cardinality({k \in 1..Len(resp.groups) :
                                  resp.groups[k].key = KeyOf(rows[i])}) = 1
             /\ SumSeq([i \in 1..Len(resp.groups) |-> resp.groups[i].company_count])
                  = Len(rows)

\* C6 witness: a rollup of two groups over a year with a record without scope_2.
C6_Witness ==
    /\ ApiOk("sectors") \/ ApiOk("regions")
    /\ Len(resp.groups) >= 2
    /\ \E e \in Range(emissions) : e.year = resp.year /\ e.scope_2 = NULL

\* q occurs in text as it is written: same characters, same case.
IsSubstring(q, text) ==
    \E i \in 1..(Len(text) - Len(q) + 1) : SubSeq(text, i, i + Len(q) - 1) = q

\* C7: for a non-empty q, search returns only companies whose name contains q
\* as a case-sensitive literal substring (% and _ included).
C7_SearchLiteralSubstring ==
    (ApiOk("search") /\ Supplied(req.q)) =>
        \A c \in Range(resp.companies) : IsSubstring(req.q, c.name)

\* The stored companies each filter of the search request matches on its own
\* (all of them for a filter that is absent or empty).
MatchedByQ ==
    IF Supplied(req.q)
    THEN {c \in Range(companies) : SqlLike(<<"%">> \o req.q \o <<"%">>, c.name)}
    ELSE Range(companies)

MatchedBySector ==
    IF Supplied(req.sector) THEN {c \in Range(companies) : c.sector = req.sector}
    ELSE Range(companies)

MatchedByRegion ==
    IF Supplied(req.region) THEN {c \in Range(companies) : c.region = req.region}
    ELSE Range(companies)

Matched == MatchedByQ \cap MatchedBySector \cap MatchedByRegion

\* C8: the companies search matches are the intersection of the companies
\* each supplied filter matches alone; an absent or empty filter restricts
\* nothing (the response holds all of them when they are at most 50, and only
\* such companies otherwise).
C8_SearchIntersectsFilters ==
    ApiOk("search") =>
        /\ Range(resp.companies) \subseteq Matched
        /\ Cardinality(Matched) <= SearchLimit => Range(resp.companies) = Matched

\* C8 witness: q, sector and region are all supplied and the result is
\* non-empty and smaller than what each filter matches alone.
C8_Witness ==
    /\ ApiOk("search")
    /\ Supplied(req.q) /\ Supplied(req.sector) /\ Supplied(req.region)
    /\ resp.companies # <<>>
    /\ Len(resp.companies) < Cardinality(MatchedByQ)
    /\ Len(resp.companies) < Cardinality(MatchedBySector)
    /\ Len(resp.companies) < Cardinality(MatchedByRegion)

\* C9: a search response holds at most 50 companies, none twice, in ascending
\* order of name; when more than 50 match it holds exactly the 50 first of
\* them in name order; count is the length of companies.
C9_SearchOrderedAndCapped ==
    ApiOk("search") =>
        /\ Len(resp.companies) <= 50
        /\ resp.count = Len(resp.companies)
        /\ \A i, j \in 1..Len(resp.companies) :
              i < j => TextLess(resp.companies[i].name, resp.companies[j].name)
        /\ Range(resp.companies) \subseteq Matched
        /\ Len(resp.companies) = Min(50, Cardinality(Matched))
        /\ \A c \in Matched \ Range(resp.companies) :
              \A x \in Range(resp.companies) : TextLess(x.name, c.name)

\* C9 witness: more than 50 companies match and 50 are returned.
C9_Witness ==
    /\ ApiOk("search")
    /\ Cardinality(Matched) > 50
    /\ Len(resp.companies) = 50

\* The first line of the CSV file that is the source of a stored record.
SourceRow(e) ==
    LET c == CHOOSE c \in Range(companies) : c.id = e.company_id
        i == CHOOSE i \in 1..Len(csv) :
                /\ Trim(csv[i].Company) = c.name
                /\ parseInt(csv[i].Year) = e.year
                /\ \A j \in 1..(i - 1) :
                      ~(Trim(csv[j].Company) = c.name /\ parseInt(csv[j].Year) = e.year)
    IN  csv[i]

\* scope_2 as the claim has it for a source cell: null when blank, its value otherwise.
Scope2Of(cell) == IF Trim(cell) = Blank THEN NULL ELSE parseFloat(cell)

WithCompany(lines) == SelectSeq(lines, LAMBDA r : Trim(r.Company) # Blank)

\* C11: a data line whose Company is missing or blank contributes nothing to
\* the import: the generated statements are those of the file without such
\* lines, every statement and every stored company carries the trimmed name
\* of a line that has a Company.
C11_BlankCompanyRowsDropped ==
    LET named == {Trim(r.Company) : r \in Range(WithCompany(csv))}
    IN  /\ GenerateSql(csv) = GenerateSql(WithCompany(csv))
        /\ \A st \in Range(GenerateSql(csv)) : st.name \in named
        /\ \A c \in Range(companies) : c.name \in named

\* C11 witness: a file with a line without Company that has a Year, and a line
\* with Company, has been imported completely.
C11_Witness ==
    /\ etl.exit = 0
    /\ \E r \in Range(csv) : Trim(r.Company) = Blank /\ Trim(r.Year) # Blank
    /\ WithCompany(csv) # <<>>
    /\ companies # <<>>
    /\ emissions # <<>>

\* The cell as the claim imports it: its default when absent, trimmed otherwise.
Defaulted(cell, default, Absent(_)) == IF Absent(cell) THEN default ELSE Trim(cell)

\* The number SQL reads from an imported cell, NULL for the blank text.
NumberOf(text) == IF text = Blank THEN NULL ELSE parseFloat(text)

\* The statements the claim describes for a CSV file, given what counts as an
\* absent cell: one company INSERT per name, from the first line of the name,
\* then one emissions INSERT per line that has a Year.
ExpectedSql(lines, Absent(_)) ==
    LET rows == SelectSeq(lines, LAMBDA r : Trim(r.Company) # Blank /\ r.Company # Undefined)
        first == SelectSeq([i \in 1..Len(rows) |-> i], LAMBDA i :
                    \A j \in 1..(i - 1) : Trim(rows[j].Company) # Trim(rows[i].Company))
        dated == SelectSeq(rows, LAMBDA r : ~Absent(r.Year))
        Company(r) ==
            [kind |-> "company",
             name |-> Trim(r.Company),
             sector |-> Defaulted(r.Sector, <<"O","t","h","e","r">>, Absent),
             region |-> Defaulted(r.Region, <<"U","n","k","n","o","w","n">>, Absent),
             ownership |-> Defaulted(r.Ownership, <<"P","u","b","l","i","c">>, Absent),
             baseline_year |-> NumberOf(Defaulted(r.BaselineYear, <<"2","0","2","0">>, Absent)),
             net_zero_year |-> NumberOf(Defaulted(r.NetZeroYear, <<"2","0","5","0">>, Absent)),
             interim_target_year |-> NumberOf(Defaulted(r.InterimTargetYear, Blank, Absent)),
             interim_reduction_percent |-> NumberOf(Defaulted(r.InterimReduction, Blank, Absent))]
        Emission(r) ==
            [kind |-> "emission",
             name |-> Trim(r.Company),
             year |-> NumberOf(Trim(r.Year)),
             scope_1 |-> NumberOf(Defaulted(r.Scope1, <<"0">>, Absent)),
             scope_2 |-> NumberOf(Defaulted(r.Scope2, Blank, Absent)),
             scope_3 |-> NumberOf(Defaulted(r.Scope3, <<"0">>, Absent))]
    IN  [i \in 1..Len(first) |-> Company(rows[first[i]])]
        \o [i \in 1..Len(dated) |-> Emission(dated[i])]

IsBlank(cell) == Trim(cell) = Blank

IsBlankOrUndefined(cell) == Trim(cell) = Blank \/ Trim(cell) = Undefined

\* C12 as stated: in the generated SQL every blank field of an imported line
\* is replaced by its default (sector Other, region Unknown, ownership Public,
\* baseline year 2020, net zero year 2050, interim fields NULL, scope 1 and 3
\* 0, scope 2 NULL) and every non-blank field is its trimmed value.
C12_BlankFieldsDefaulted == GenerateSql(csv) = ExpectedSql(csv, IsBlank)

\* C12 amended: the same, with a field that is the text undefined treated as
\* a blank one.
C12_BlankOrUndefinedDefaulted == GenerateSql(csv) = ExpectedSql(csv, IsBlankOrUndefined)

\* C12 witness: the import has run on a file with a line whose fields are all
\* blank but Company, and a line with a non-blank Sector and Scope 2 that
\* are the text undefined.
C12_Witness ==
    /\ etl.exit = 0
    /\ \E r \in Range(csv) :
          /\ ~IsBlank(r.Company)
          /\ \A h \in DOMAIN r \ {"Company"} : IsBlank(r[h])
    /\ \E r \in Range(csv) :
          /\ ~IsBlank(r.Company) /\ ~IsBlank(r.Year)
          /\ r.Sector = Undefined /\ r.Scope2 = Undefined
    /\ \E c \in Range(companies) : c.sector = <<"O","t","h","e","r">>

\* The routes under /api/ and the requests no route matches.
ApiOps ==
    {"list", "company", "peers", "sectors", "regions", "search", "years", "stats",
     "unmatched"}

\* The response to the current request is one of the three outcomes: success,
\* NotFound (missing company, or unmatched route with error 'Not found'), or
\* Internal with the raw failure message and nothing else; a request whose
\* failing query was reached ends Internal right at that query.
OneOfThreeOutcomes ==
    /\ \/ /\ resp.status = 200
          /\ "success" \in DOMAIN resp /\ resp.success = TRUE
          /\ "error" \notin DOMAIN resp
          /\ req.failAt = 0 \/ resp.queries < req.failAt
       \/ /\ resp.status = 404
          /\ resp.success = FALSE
          /\ \/ /\ req.op \in {"company", "peers"}
                /\ resp.error = "Company not found"
                /\ CompaniesNamed(companies, decodeURIComponent(req.param).value) = <<>>
             \/ /\ req.op = "unmatched"
                /\ resp.error = "Not found"
       \/ /\ resp.status = 500
          /\ resp.success = FALSE
          /\ DOMAIN resp = {"status", "success", "error", "queries"}
    /\ (req.failAt > 0 /\ resp.queries >= req.failAt) =>
          /\ resp.status = 500
          /\ resp.error = "D1_ERROR"
          /\ resp.queries = req.failAt

\* C13 as stated: every request to the worker ends in exactly one of the
\* three outcomes success (200, success:true), NotFound (404) or Internal
\* (500 with the raw message), a failed query ending the request at once.
C13_ThreeOutcomes == req.op \in ApiOps \cup {"root"} => OneOfThreeOutcomes

\* C13 amended: the same for every request other than GET /.
C13_ThreeOutcomesOfApiRoutes == req.op \in ApiOps => OneOfThreeOutcomes

\* C13 witness: the third query of a peer comparison failed after two that
\* succeeded, and the response is Internal.
C13_Witness ==
    /\ req.op = "peers"
    /\ req.failAt = 3
    /\ resp.status = 500
    /\ resp.queries = 3

\* The entries of the peer comparison of the API are as the claim has them.
ApiPeerEntriesAsClaimed ==
    LET name == decodeURIComponent(req.param).value
        me == CHOOSE c \in Range(companies) : c.name = name
        n == Len(resp.companies)
    IN  /\ \A i \in 1..n :
              LET x == resp.companies[i]
              IN  IF x.is_current_company = 0
                  THEN /\ x.name # name
                       /\ \E c \in Range(companies) : c.name = x.name /\ c.sector = me.sector
                       /\ StoredRecords(x.name, resp.year) # {}
                  ELSE /\ x.is_current_company = 1
                       /\ i = 1
                       /\ x.name = name
                       /\ \E e \in StoredRecords(name, resp.year) :
                             x.total_emissions = TotalOf(e.scope_1, e.scope_2, e.scope_3)
        /\ \A i, j \in 1..n : i # j => resp.companies[i].name # resp.companies[j].name

\* The entries of the peer comparison of the mock client are as the claim has them.
MockPeerEntriesAsClaimed ==
    LET RowsOf(company) ==
            {row \in Range(rawData) :
                row.Company = company /\ parseInt(row.Year) = req.year}
        n == Len(resp.companies)
    IN  /\ \A i \in 1..n :
              LET x == resp.companies[i]
              IN  IF x.is_current_company = 0
                  THEN /\ x.name # req.name
                       /\ x.sector = resp.sector
                       /\ \E row \in RowsOf(x.name) : row.Sector = resp.sector
                  ELSE /\ x.is_current_company = 1
                       /\ i = 1
                       /\ x.name = req.name
                       /\ \E row \in RowsOf(req.name) :
                             x.total_emissions =
                                TotalOf(parseFloat(row.Scope1), Scope2Of(row.Scope2),
                                        parseFloat(row.Scope3))
        /\ \A i, j \in 1..n : i # j => resp.companies[i].name # resp.companies[j].name

\* C14: in a peer comparison for an existing company every peer entry is
\* another company of the named company's sector with a record for the
\* requested year and is_current_company = 0, no company appears twice, and
\* the current-company entry, when present, is the first element with
\* is_current_company = 1, the requested name and the company's own total for
\* that year (API and mock client).
C14_PeerEntriesAsClaimed ==
    /\ ApiOk("peers") => ApiPeerEntriesAsClaimed
    /\ MockOk("mockPeers") => MockPeerEntriesAsClaimed

\* C15: list companies returns every stored company exactly once, those
\* without records included (emission_records 0, first_year and latest_year
\* null), in ascending order of name, each with the count, the least and the
\* greatest year of its records; count is the number of companies.
C15_ListCompaniesComplete ==
    ApiOk("list") =>
        LET n == Len(resp.companies)
            YearsOf(c) == {e.year : e \in {f \in Range(emissions) : f.company_id = c.id}}
        IN  /\ resp.count = Len(companies)
            /\ n = Len(companies)
            /\ \A c \in Range(companies) :
                  \E i \in 1..n :
                     LET x == resp.companies[i]
                     IN  /\ \A h \in DOMAIN c : x[h] = c[h]
                         /\ x.emission_records =
                               Cardinality({f \in Range(emissions) : f.company_id = c.id})
                         /\ x.first_year =
                               (IF YearsOf(c) = {} THEN NULL
                                ELSE CHOOSE y \in YearsOf(c) : \A z \in YearsOf(c) : y <= z)
                         /\ x.latest_year =
                               (IF YearsOf(c) = {} THEN NULL
                                ELSE CHOOSE y \in YearsOf(c) : \A z \in YearsOf(c) : y >= z)
                         /\ \A j \in 1..n : resp.companies[j].id = c.id => j = i
            /\ \A i, j \in 1..n :
                  i < j => TextLess(resp.companies[i].name, resp.companies[j].name)

\* C15 witness: a list of a store whose first company has no records and
\* comes after a company with records in name order.
C15_Witness ==
    /\ ApiOk("list")
    /\ Len(resp.companies) >= 2
    /\ resp.companies[1].id # 1
    /\ \E x \in Range(resp.companies) :
          x.emission_records = 0 /\ x.first_year = NULL /\ x.latest_year = NULL
    /\ \E x \in Range(resp.companies) : x.emission_records >= 2

\* The sector (sectors) or region (regions) of the company of a stored record.
GroupKeyOf(e) ==
    LET c == CHOOSE c \in Range(companies) : c.id = e.company_id
    IN  IF req.op = "sectors" THEN c.sector ELSE c.region

\* The stored records of the year of the rollup response that belong to a group.
GroupRecords(k) == SelectSeq(emissions, LAMBDA e : e.year = resp.year /\ GroupKeyOf(e) = k)

\* C16: every group of the sector (region) rollup of a year has company_count
\* = the number of distinct companies of the group with a record in the year,
\* total_scope_1/2/3 = the sums of the scopes of those records (scope_2 absent
\* as 0), total_emissions = the sum of their totals, avg_emissions =
\* total_emissions / the number of those records; the groups are exactly the
\* sectors (regions) with a record in the year, each once.
C16_RollupGroupsAsClaimed ==
    (ApiOk("sectors") \/ ApiOk("regions")) =>
        /\ \A g \in Range(resp.groups) :
              LET recs == GroupRecords(g.key)
                  Sum(F(_)) == SumSeq([i \in 1..Len(recs) |-> F(recs[i])])
                  S1(e) == e.scope_1
                  S2(e) == IF e.scope_2 = NULL THEN 0 ELSE e.scope_2
                  S3(e) == e.scope_3
                  T(e) == TotalOf(e.scope_1, e.scope_2, e.scope_3)
              IN  /\ recs # <<>>
                  /\ g.company_count = Cardinality({recs[i].company_id : i \in 1..Len(recs)})
                  /\ g.total_scope_1 = Sum(S1)
                  /\ g.total_scope_2 = Sum(S2)
                  /\ g.total_scope_3 = Sum(S3)
                  /\ g.total_emissions = Sum(T)
                  /\ g.avg_emissions.num * Len(recs) = g.total_emissions * g.avg_emissions.den
                  /\ g.avg_emissions.den > 0
        /\ {g.key : g \in Range(resp.groups)}
              = {GroupKeyOf(e) : e \in {f \in Range(emissions) : f.year = resp.year}}
        /\ \A i, j \in 1..Len(resp.groups) :
              i # j => resp.groups[i].key # resp.groups[j].key

\* C16 witness: a rollup of two groups, one of two companies, over a year with
\* a record without scope_2.
C16_Witness ==
    /\ ApiOk("sectors") \/ ApiOk("regions")
    /\ Len(resp.groups) >= 2
    /\ \E g \in Range(resp.groups) : g.company_count >= 2 /\ g.total_emissions > 0
    /\ \E e \in Range(emissions) : e.year = resp.year /\ e.scope_2 = NULL

\* a >= b on numbers: false when either is NaN.
NumGeq(a, b) == a # NaN /\ b # NaN /\ a >= b

\* Each group of the response has a total_emissions greater than or equal to
\* that of the group after it.
GroupsDescending ==
    \A i \in 1..(Len(resp.groups) - 1) :
        NumGeq(resp.groups[i].total_emissions, resp.groups[i + 1].total_emissions)

\* C17: the groups of the sector and of the region rollup of a year (API and
\* mock client) are ordered by total_emissions descending.
C17_RollupDescending ==
    (ApiOk("sectors") \/ ApiOk("regions") \/ MockOk("mockSectors") \/ MockOk("mockRegions"))
        => GroupsDescending

\* C18: after any sequence of import runs over any CSV files the store holds
\* at most one emission record per company and year and at most one company
\* per name, and every emission record references exactly one stored company.
C18_StoreKeysUnique ==
    /\ \A i, j \in 1..Len(emissions) :
          (emissions[i].company_id = emissions[j].company_id
           /\ emissions[i].year = emissions[j].year) => i = j
    /\ \A i, j \in 1..Len(companies) :
          (companies[i].name = companies[j].name \/ companies[i].id = companies[j].id)
             => i = j
    /\ \A e \in Range(emissions) :
          Cardinality({i \in 1..Len(companies) : companies[i].id = e.company_id}) = 1

\* C18 witness: a run on a file that repeats a company and year has failed on
\* a store that holds two companies and the records of an earlier file.
C18_Witness ==
    /\ etl.exit = 1
    /\ \E i, j \in 1..Len(csv) :
          i # j /\ csv[i].Company = csv[j].Company /\ csv[i].Year = csv[j].Year
    /\ Len(companies) = 2
    /\ Len(emissions) = 2
    /\ \E e \in Range(emissions) :
          \A r \in Range(csv) :
             \A c \in Range(companies) : c.id = e.company_id => Trim(r.Company) # c.name

\* The responses the request r can get when it runs alone on the store.
AloneOnStore(r) ==
    CASE r.op = "company" -> {CompanyDetail(companies, emissions, r.param, 0)}
      [] r.op = "peers" -> PeerComparison(companies, emissions, r)
      [] r.op = "list" -> {ListCompanies(companies, emissions, 0)}
      [] r.op = "sectors" -> Rollup(companies, emissions, r, "sector")
      [] r.op = "regions" -> Rollup(companies, emissions, r, "region")
      [] r.op = "search" -> {Search(companies, r)}
      [] r.op = "years" -> {Years(emissions, 0)}
      [] r.op = "stats" -> {Stats(companies, emissions, 0)}

\* C19: whatever requests (list, detail, peers, sector and region rollup,
\* search, years, stats) have run or are running, interleaved in any way, the
\* companies and emissions tables are what the import left, and every
\* response returned is one the request gets when it runs alone on that store
\* (for peers: with one of the samples it can draw).
C19_RequestsReadOnly ==
    /\ companies = Loaded(csv).companies
    /\ emissions = Loaded(csv).emissions
    /\ \A c \in Clients : resp[c] # NoResponse => resp[c] \in AloneOnStore(req[c].r)

\* C19 witness: a company detail has been answered from a store with records
\* while a peer comparison of the other client is between its second and
\* its third query.
C19_Witness ==
    /\ emissions # <<>>
    /\ req["a"] # NoRequest /\ req["a"].r.op = "company"
    /\ resp["a"] # NoResponse /\ resp["a"].status = 200
    /\ req["b"] # NoRequest /\ req["b"].r.op = "peers"
    /\ req["b"].pc = 3 /\ resp["b"] = NoResponse

\* C20: when the load step of the import fails the process exits with status
\* 1, temp-import.sql is left on disk and neither the cleanup nor the
\* verification queries nor the summary run; temp-import.sql is deleted only
\* by a run whose load step succeeded.
C20_FailedLoadKeepsSqlFile ==
    /\ etl.load = "failed" =>
          /\ etl.exit = 1
          /\ etl.sqlFile
          /\ ~etl.cleanup
          /\ etl.verify = "none"
          /\ ~etl.summary
    /\ (etl.exit # NULL /\ ~etl.sqlFile) => etl.load = "ok"
    /\ etl.cleanup => etl.load = "ok"

\* C20 witness: the load failed after the company and a first record of a
\* repeated company and year were inserted.
C20_Witness ==
    /\ etl.load = "failed"
    /\ etl.sqlFile
    /\ companies # <<>>
    /\ emissions # <<>>
    /\ \E i, j \in 1..Len(csv) :
          /\ i # j
          /\ Trim(csv[i].Company) = Trim(csv[j].Company)
          /\ Trim(csv[i].Year) = Trim(csv[j].Year)
          /\ Trim(csv[i].Year) # Blank

\* C21: distinct years returns every year of at least one stored emission
\* record, each exactly once, in strictly descending order, and the empty list
\* when the store holds no record.
C21_YearsDistinctDescending ==
    ApiOk("years") =>
        /\ Range(resp.years) = {e.year : e \in Range(emissions)}
        /\ \A i, j \in 1..Len(resp.years) : i < j => resp.years[i] > resp.years[j]
        /\ emissions = <<>> => resp.years = <<>>

\* C21 witness: two years are returned for three records, two of them of the
\* same year, stored with the lesser year first.
C21_Witness ==
    /\ ApiOk("years")
    /\ Len(resp.years) = 2
    /\ Len(emissions) = 3
    /\ emissions[1].year < emissions[2].year

\* C22: global stats returns the number of stored companies, the number of
\* stored records, the numbers of distinct sector and region values among the
\* companies and the least and greatest year over all records (null when
\* there is none); on the same store total_companies is the count of list
\* companies, and earliest_year / latest_year are the last / first entry of
\* distinct years.
C22_StatsAsClaimed ==
    ApiOk("stats") =>
        LET years == {e.year : e \in Range(emissions)}
            list == ListCompanies(companies, emissions, 0)
            distinct == Years(emissions, 0).years
        IN  /\ resp.stats.total_companies = Cardinality(Range(companies))
            /\ resp.stats.total_emissions_records = Cardinality(DOMAIN emissions)
            /\ resp.stats.total_sectors = Cardinality({c.sector : c \in Range(companies)})
            /\ resp.stats.total_regions = Cardinality({c.region : c \in Range(companies)})
            /\ years = {} => /\ resp.stats.earliest_year = NULL
                             /\ resp.stats.latest_year = NULL
            /\ years # {} => /\ resp.stats.earliest_year \in years
                             /\ resp.stats.latest_year \in years
                             /\ \A y \in years : /\ resp.stats.earliest_year <= y
                                                  /\ y <= resp.stats.latest_year
            /\ resp.stats.total_companies = list.count
            /\ resp.stats.total_companies = Len(list.companies)
            /\ distinct # <<>> => /\ resp.stats.latest_year = distinct[1]
                                  /\ resp.stats.earliest_year = distinct[Len(distinct)]
            /\ distinct = <<>> => resp.stats.earliest_year = NULL

\* C22 witness: stats over two companies of one sector and two regions, with
\* three records over two years.
C22_Witness ==
    /\ ApiOk("stats")
    /\ resp.stats.total_companies = 2
    /\ resp.stats.total_sectors = 1
    /\ resp.stats.total_regions = 2
    /\ resp.stats.total_emissions_records = 3
    /\ resp.stats.earliest_year < resp.stats.latest_year

\* The most store queries a handler issues, by route.
MostQueries(op) ==
    CASE op = "peers" -> 3
      [] op = "company" -> 2
      [] op \in {"list", "sectors", "regions", "search", "years", "stats"} -> 1
      [] op \in {"root", "unmatched"} -> 0

\* C23: every API call issues at most two store queries, on every path
\* through every route handler.
C23_AtMostTwoQueries ==
    req.op \in ApiOps \cup {"root", "unmatched"} => resp.queries <= 2

\* C23 as the handlers are written: every API call issues at most three store
\* queries, one after the other: the peer comparison at most three (lookup,
\* the company's own record, the peers), company detail at most two, every
\* other route one; a failing query is the last one issued, and a name that is
\* not found costs one query.
C23_AtMostThreeQueries ==
    req.op \in ApiOps \cup {"root", "unmatched"} =>
        /\ resp.queries \in 0..3
        /\ resp.queries <= MostQueries(req.op)
        /\ resp.status = 200 => resp.queries = MostQueries(req.op)
        /\ (resp.status = 500 /\ req.failAt > 0) => resp.queries = req.failAt
        /\ (resp.status = 404 /\ req.op # "unmatched") => resp.queries = 1

\* C23 witness: a peer comparison answered after three store queries.
C23_Witness ==
    /\ ApiOk("peers")
    /\ resp.queries = 3
    /\ Len(resp.companies) >= 2

\* The store holds exactly what the import of the CSV file leaves, so that the
\* mock client (rawData) and the API (the store) work on the same data set.
SameDataSet ==
    /\ Loaded(csv).ok
    /\ companies = Loaded(csv).companies
    /\ emissions = Loaded(csv).emissions

\* The fields of a rollup group both clients return.
SharedGroupFields(g) ==
    [key |-> g.key, company_count |-> g.company_count,
     total_scope_1 |-> g.total_scope_1, total_scope_2 |-> g.total_scope_2,
     total_scope_3 |-> g.total_scope_3, total_emissions |-> g.total_emissions]

\* C24: on the same data set and year the sector and region rollups of the
\* mock client return the same groups, in the same order, with the same
\* company_count, total_scope_1, total_scope_2, total_scope_3 and
\* total_emissions as /api/sectors and /api/regions can return.
C24_MockRollupEqualsApi ==
    ((MockOk("mockSectors") \/ MockOk("mockRegions")) /\ SameDataSet) =>
        LET key == IF req.op = "mockSectors" THEN "sector" ELSE "region"
        IN  \E g \in DescendingOrders(RollupGroups(companies, emissions, req.year, key)) :
               [i \in 1..Len(g) |-> SharedGroupFields(g[i])]
                 = [i \in 1..Len(resp.groups) |-> SharedGroupFields(resp.groups[i])]

\* C25: for every company name the import stored, names with an apostrophe
\* included, the peer comparison requested with that name (no store failure)
\* returns success, and its current-company entry carries the requested name
\* character for character.
C25_PeersOfStoredNameSucceed ==
    (req.op = "peers" /\ req.failAt = 0
     /\ \E c \in Range(companies) : c.name = req.param) =>
        /\ resp.status = 200
        /\ \A x \in Range(resp.companies) :
              x.is_current_company = 1 => x.name = req.param

\* The values a fetch can resolve with.
ResolvedValues(outcomes) == {o.value : o \in {x \in outcomes : x.state = "resolved"}}

LatestYearDisplayed(v) ==
    IF v.emissionsData = <<>> THEN NULL
    ELSE v.emissionsData[Len(v.emissionsData)].year

\* C27: in CorporateView, after any sequence of company selections and fetch
\* completions, whenever the peer comparison chart is shown, peerCompanies
\* was fetched for the selected company and for the latest year of the
\* emissions displayed; a load asks for the peers only after the data of its
\* company has arrived.
C27_PeersOfSelectedCompany ==
    view.activeView = "corporate" =>
        /\ PeerChartShown(view) =>
              /\ view.peersFrom.name = view.selectedCompanyName
              /\ view.emissionsData # <<>>
              /\ view.peersFrom.year = LatestYearDisplayed(view)
        /\ \A i \in DOMAIN view.loads :
              view.loads[i].awaiting = "peers" =>
                 /\ view.companyData # NoCompanyData
                 /\ view.companyData.name = view.loads[i].name
                 /\ view.loads[i].year = LatestYearDisplayed(view)

GrandTotal(groups, field) == SumSeq([i \in 1..Len(groups) |-> groups[i][field]])

\* C29: the sector rollup and the region rollup of a year, as InvestorView
\* holds them, agree on the sums over all groups of total_emissions, of
\* total_scope_1/2/3 and of company_count, so that the shares of the regions
\* in the total of the sectors add up to 100% when that total is not zero.
C29_RollupGrandTotalsAgree ==
    (view.activeView = "investor" /\ ~view.loading /\ ~ErrorShown(view)) =>
        LET totalEmissions == GrandTotal(view.sectors, "total_emissions")
        IN  /\ \A f \in {"total_emissions", "total_scope_1", "total_scope_2",
                         "total_scope_3", "company_count"} :
                  GrandTotal(view.sectors, f) = GrandTotal(view.regions, f)
            /\ totalEmissions # 0 =>
                  SumSeq([i \in 1..Len(view.regions) |->
                            view.regions[i].total_emissions * 100])
                    = 100 * totalEmissions

\* C29 witness: two sectors and two regions that divide three records of a
\* year differently, one of them without scope_2.
C29_Witness ==
    /\ view.activeView = "investor"
    /\ ~view.loading
    /\ ~ErrorShown(view)
    /\ Len(view.sectors) = 2
    /\ Len(view.regions) = 2
    /\ view.sectors[1].company_count # view.regions[1].company_count
    /\ GrandTotal(view.sectors, "total_emissions") > 0
    /\ \E e \in Range(emissions) : e.year = view.selectedYear /\ e.scope_2 = NULL

\* C30: the import generates exactly one company INSERT for each distinct
\* Company name of the accepted lines and none for any other name; the
\* attributes of the INSERT are those of the first line of the name in file
\* order; a line with a blank Year contributes its company, and the
\* emissions INSERTs are one for each accepted line that has a Year.
C30_OneCompanyInsertPerName ==
    LET accepted == WithCompany(csv)
        sql == GenerateSql(csv)
        inserts == SelectSeq(sql, LAMBDA st : st.kind = "company")
        dated == SelectSeq(accepted, LAMBDA r : ~IsBlank(r.Year))
        FirstOf(n) ==
            accepted[CHOOSE i \in 1..Len(accepted) :
                        /\ Trim(accepted[i].Company) = n
                        /\ \A j \in 1..(i - 1) : Trim(accepted[j].Company) # n]
    IN  /\ \A r \in Range(accepted) :
              Cardinality({i \in 1..Len(inserts) : inserts[i].name = Trim(r.Company)}) = 1
        /\ \A i \in 1..Len(inserts) :
              /\ inserts[i].name \in {Trim(r.Company) : r \in Range(accepted)}
              /\ LET first == FirstOf(inserts[i].name)
                 IN  /\ inserts[i].sector
                          = Defaulted(first.Sector, <<"O","t","h","e","r">>, IsBlankOrUndefined)
                     /\ inserts[i].region
                          = Defaulted(first.Region, <<"U","n","k","n","o","w","n">>,
                                      IsBlankOrUndefined)
                     /\ inserts[i].ownership
                          = Defaulted(first.Ownership, <<"P","u","b","l","i","c">>,
                                      IsBlankOrUndefined)
                     /\ inserts[i].baseline_year
                          = NumberOf(Defaulted(first.BaselineYear, <<"2","0","2","0">>,
                                               IsBlankOrUndefined))
                     /\ inserts[i].net_zero_year
                          = NumberOf(Defaulted(first.NetZeroYear, <<"2","0","5","0">>,
                                               IsBlankOrUndefined))
                     /\ inserts[i].interim_target_year
                          = NumberOf(Defaulted(first.InterimTargetYear, Blank,
                                               IsBlankOrUndefined))
                     /\ inserts[i].interim_reduction_percent
                          = NumberOf(Defaulted(first.InterimReduction, Blank,
                                               IsBlankOrUndefined))
        /\ SelectSeq(sql, LAMBDA st : st.kind = "emission")
              = [i \in 1..Len(dated) |-> EmissionInsert(ParseRow(dated[i]))]

\* C30 witness: the statements of a file with two lines of one company that
\* disagree on sector, region, ownership and net zero year, and a line of
\* another company with a blank Year, have been executed up to the second
\* emissions INSERT: both companies are stored, the first with the sector
\* of its first line, with one emissions record.
C30_Witness ==
    /\ etl # EtlNotRun
    /\ \E i, j \in 1..Len(csv) :
          /\ i < j
          /\ Trim(csv[i].Company) = Trim(csv[j].Company)
          /\ Trim(csv[i].Company) # Blank
          /\ Trim(csv[i].Sector) # Trim(csv[j].Sector)
          /\ Trim(csv[i].Region) # Trim(csv[j].Region)
          /\ csv[i].Ownership # csv[j].Ownership
          /\ csv[i].NetZeroYear # csv[j].NetZeroYear
          /\ \E c \in Range(companies) :
                c.name = Trim(csv[i].Company) /\ c.sector = Trim(csv[i].Sector)
    /\ \E r \in Range(csv) :
          /\ ~IsBlank(r.Company) /\ IsBlank(r.Year)
          /\ \E c \in Range(companies) : c.name = Trim(r.Company)
          /\ \A k \in 1..Len(csv) : Trim(csv[k].Company) = Trim(r.Company) => csv[k] = r
    /\ Len(companies) = 2
    /\ Len(emissions) = 1

====
